---- MODULE Spec2Model ----
(***************************************************************************)
(* State-machine model of the mail-rulez processing services:              *)
(*   services/email_processor.py  EmailProcessor (one per account)         *)
(*   services/task_manager.py     TaskManager (registry of processors)     *)
(* Every EmailProcessor owns a threading.Lock and an APScheduler           *)
(* BackgroundScheduler.  Callers are request threads (Clients) and the     *)
(* scheduler's own worker threads (the inbox job and the three             *)
(* training-folder jobs).                                                  *)
(***************************************************************************)
EXTENDS Integers, FiniteSets, Sequences, TLC

\* ---- bounds of the model ----
MaxClock == 1            \* the wall clock runs from 0 to MaxClock
ErrorCap == 5            \* consecutive_errors is not pushed beyond this
NumProcs == 1            \* EmailProcessor objects that can be constructed
MaxBatch == 1            \* messages one run reports as processed / remaining
MaxProcessed == 2        \* emails_processed is not pushed beyond this
MaxErrors == 2           \* error_count of a processor at a status poll
Margin == 1              \* inputs lie within Margin of every threshold
MaxHours == 2            \* check intervals followed after the 14th day
NumMsgs == 2             \* messages in the mailbox
BatchLimit == 2          \* limit of one inbox fetch (100 / 200 in the program)
\* most rules in rules.json, and the priorities 1..MaxPriority a rule is given
MaxRules == 2
MaxPriority == 2
\* most lines of a sender-list file
MaxLines == 2
\* the versions 1..MaxVersion a document is saved in, and the writes a
\* document takes
MaxVersion == 2
DocChunks == 2
\* most policies of the store, the retention periods 0..MaxRetention asked
\* for, and the seconds 0..MaxStamp of the clock that names a new policy
MaxPolicies == 2
MaxRetention == 1
MaxStamp == 1
\* last day of the calendar, and the largest max_emails_per_operation and
\* default_trash_retention_days of the settings file
MaxDay == 3
MaxCap == 2
MaxTrashDays == 2

\* ---- program constants ----
max_consecutive_errors == 5
transition_check_interval == 3600  \* seconds
pending_limit == 50      \* emails_pending < 50
min_days == 14           \* (now - mode_start_time).days >= 14
error_rate_percent == 5  \* error_count / max(1, emails_processed) < 0.05
SecondsPerDay == 86400   \* timedelta: days and seconds < 86400

\* ServiceState
STOPPED == "stopped"
STARTING == "starting"
RUNNING_STARTUP == "running_startup"
RUNNING_MAINTENANCE == "running_maintenance"
STOPPING == "stopping"
ERROR == "error"
ServiceState ==
  {STOPPED, STARTING, RUNNING_STARTUP, RUNNING_MAINTENANCE, STOPPING, ERROR}

\* ProcessingMode
STARTUP == "startup"
MAINTENANCE == "maintenance"
ProcessingMode == {STARTUP, MAINTENANCE}

\* request threads of the HTTP collaborator, processor objects, accounts
Clients == {"c1", "c2"}
Procs == 1..NumProcs
\* the processors whose statistics are followed, in the registry's order
StatProcs == {1, 2}
Emails == {"a1"}
NoProc == 0
NoTime == -1
NoThread == "none"
JobThread == "job"

\* the built-in sender lists and the folders of an account
ListNames == {"white", "black", "vendor"}
INBOX == "INBOX"
TrainingFolder == [white |-> "_whitelist", black |-> "_blacklist",
                   vendor |-> "_vendor"]
DestFolder == [white |-> "processed", black |-> "junk",
               vendor |-> "approved_ads"]
PendingFolder == "pending"
NoReport == [process |-> "none"]

\* the threads that write a sender list, the threads that save a JSON document
ListWriters == {"w1", "w2"}
Savers == {"v1", "v2"}

\* rules.json and retention_policies.json, and the temporary file of each saver
ConfigFiles == {"rules.json", "retention_policies.json"}
TempFile == [v1 |-> "tmp1", v2 |-> "tmp2"]
FileNames == ConfigFiles \cup {TempFile[w] : w \in Savers}
NoFile == <<"absent">>

\* global_settings of RetentionSettings
min_retention_days == 1

\* the outcome of a retention run that has not happened
NoRetRun == [kind |-> "none"]

\* the loop threads a RetentionScheduler can start, the manager objects,
\* a manager that was not constructed, a query that was not made
SchedThreads == {"t1", "t2"}
Managers == {"m1", "m2"}
NotBuilt == [built |-> FALSE]
NoQuery == [kind |-> "none"]

\* ids of the scheduler jobs of one processor
InboxJob == "inbox_maintenance"
FolderJobs == {"folder_white", "folder_black", "folder_vendor"}

VARIABLES
  proc,        \* proc[p]: the fields of EmailProcessor object p
  thr,         \* thr[t]: position and locals of request thread t
  now,         \* datetime.now()
  processors,  \* TaskManager.processors: email -> processor object
  tmLock,      \* TaskManager._lock: the thread that holds it
  configEmails, \* the account emails in the configuration file
  ret          \* the calls that returned in the last step

\* The statistics of the processors (ServiceStats) are followed for a set of
\* processors of their own, StatProcs: no guard of start(), stop(),
\* restart() or switch_mode() reads a counter, and the specifications of the
\* life cycle above leave these variables alone.
VARIABLES
  stats,       \* stats[q]: the ServiceStats counters of processor q
  plock,       \* plock[q]: the thread inside `with self._lock` of q
  upd,         \* upd[q]: the thread of q that is inside _update_stats
  agg,         \* the request thread inside get_aggregate_stats
  initialized, \* TaskManager._initialized
  last_transition_check  \* TaskManager.last_transition_check

statVars == <<stats, plock, upd, agg, initialized>>

\* The mailbox of one account and the three built-in sender lists, for the
\* inbox and training-folder processing of src/process_inbox.py and
\* src/functions.py.
VARIABLES
  mbox,        \* mbox[u]: the folder message u is in
  sender,      \* sender[u]: the from_ address of message u
  lists,       \* lists[l]: the addresses in the sender-list file l
  account,     \* gmail: is_gmail_account(email); purge: retention days > 0
  imaplog,     \* the IMAP commands issued by the last run, in order
  report       \* the log / batch result the last run returned

mailVars == <<mbox, sender, lists, account, imaplog, report>>

\* rules.json, the actions executed by the last run of the rules, and the
\* log that run returned
VARIABLES rules_file, runlog, rule_report

ruleVars == <<rules_file, runlog, rule_report>>

\* one sender-list file, the writers of it, and what the last open_read of it
\* returned
VARIABLES lfile, lw, lread

listVars == <<lfile, lw, lread>>

\* the files of the configuration directory, the savers of rules.json and
\* retention_policies.json, and what the last reader of one of them got
VARIABLES fs, fw, seen

fileVars == <<fs, fw, seen>>

\* retention: the policy store, the messages of the account with their dates,
\* the day, the retention audit log and the outcome of the last run
VARIABLES settings, rmsgs, today, audit, rrun

retVars == <<settings, rmsgs, today, audit, rrun>>

\* the retention scheduler: the fields of the RetentionScheduler object, its
\* loop threads, the clock in hours, and the scheduled executions started
VARIABLES sched, sthr, clk, execs

schedVars == <<sched, sthr, clk, execs>>

\* the lines of the retention audit log file, and what the last query of it
\* returned
VARIABLES alog, aq

alogVars == <<alog, aq>>

\* the settings each RetentionPolicyManager object holds in memory, the
\* policy changes that returned, and the state and mode of the processors
\* whose statistics are followed
VARIABLES mem, done, pstate

extVars == <<schedVars, alogVars, mem, done, pstate>>

storeVars == <<listVars, fileVars, retVars, extVars>>

dataVars == <<statVars, last_transition_check, mailVars, ruleVars, storeVars>>

\* the variables of the life cycle and of the registry
svcVars == <<proc, thr, now, processors, tmLock, configEmails, ret>>

vars == <<proc, thr, now, processors, tmLock, configEmails, ret, dataVars>>

\* call op(a) returned v on thread t
Ret(t, op, a, v) == [t |-> t, op |-> op, a |-> a, v |-> v]
NoArg == "none"

\* ---- EmailProcessor.__init__ ----
NewProcessor ==
  [alive |-> TRUE, state |-> STOPPED, mode |-> STARTUP,
   mode_start_time |-> NoTime, last_error |-> "none",
   consecutive_errors |-> 0, lock |-> NoThread,
   running |-> FALSE, jobs |-> {}, inbox |-> "idle", folders |-> 0]

Unborn == [NewProcessor EXCEPT !.alive = FALSE]

IdleThread ==
  [pc |-> "idle", ctx |-> "none", outer |-> "none", p |-> NoProc,
   arg |-> STARTUP, saved |-> STARTUP, acct |-> "a1", rm |-> {}, ad |-> {}]

RunningStates == {RUNNING_STARTUP, RUNNING_MAINTENANCE}

\* state = RUNNING_STARTUP if mode == STARTUP else RUNNING_MAINTENANCE
RunningState(m) == IF m = STARTUP THEN RUNNING_STARTUP ELSE RUNNING_MAINTENANCE

\* variant: _setup_jobs without _setup_folder_processing_jobs
JobsOf_NoFolders(m) == IF m = STARTUP THEN {} ELSE {InboxJob}

\* _setup_jobs + _setup_folder_processing_jobs: the job ids added for a mode
JobsOf(m) == IF m = STARTUP THEN {} ELSE {InboxJob} \cup FolderJobs

\* variant: start() also accepted from ERROR
StartAllowed_FromError(st) == st \in {STOPPED, ERROR}

\* guard of start(): only a STOPPED processor starts
StartAllowed(st) == st = STOPPED

\* guard of stop(): nothing to do in STOPPED or STOPPING
StopNoop(st) == st \in {STOPPED, STOPPING}

\* the state stop() leaves behind
StoppedState == STOPPED

\* variant: restart() calls start() with its default mode
RestartMode_Default(saved) == STARTUP

\* restart(): start(current_mode) with the mode read before stop()
RestartMode(saved) == saved

\* the unlocked test of switch_mode(): self.mode == new_mode
SameMode(cur, new) == cur = new

\* variant: switch_mode() refused only in STOPPED
SwitchAllowed_NotStopped(st) == st # STOPPED

\* guard of switch_mode() under the lock
SwitchAllowed(st) == st \in RunningStates

\* the processor object a request for account e is served by
Lookup(e) == processors[e]

Registered == {e \in Emails : processors[e] # NoProc}

\* ---- return of a call: continuation in the calling frame ----
\* the thread record after stop() returned r ("True"/"False") to th
StopThr(th, r) ==
  CASE th.ctx = "restart" /\ r = "True" ->
         [th EXCEPT !.pc = "start_call", !.arg = RestartMode(th.saved)]
    [] th.ctx = "remove" -> [th EXCEPT !.pc = "remove_del"]
    [] OTHER -> IdleThread

\* the calls that return when stop() returns r to th on thread t:
\* restart() returns False after a failed stop; process_manual_batch
\* returns its failure result after the error handler's stop
StopEv(t, th, r) ==
  {Ret(t, "stop", NoArg, r)} \cup
  (IF th.ctx = "restart" /\ r # "True" THEN {Ret(t, "restart", NoArg, "False")}
   ELSE IF th.ctx = "batch" THEN {Ret(t, "process_manual_batch", NoArg, "False")}
   ELSE {})

\* the calls that return when start() returns r to th on thread t
StartEv(t, th, r) ==
  {Ret(t, "start", th.arg, r)} \cup
  (IF th.ctx = "restart" THEN {Ret(t, "restart", NoArg, r)} ELSE {})

\* ---- EmailProcessor.start ----
\* acquire the lock, reject a non-stopped processor, else enter STARTING
StartBegin(t, m) ==
  LET th == thr[t]
      direct == th.pc = "idle"
      p == IF direct THEN Lookup(th.acct) ELSE th.p
      th1 == IF direct
               THEN [th EXCEPT !.ctx = "start", !.p = p, !.arg = m]
               ELSE th
  IN /\ th.pc \in {"idle", "start_call"}
     /\ direct \/ m = th.arg
     /\ p # NoProc
     /\ proc[p].lock = NoThread
     /\ IF ~StartAllowed(proc[p].state)
          THEN /\ thr' = [thr EXCEPT ![t] = IdleThread]
               /\ ret' = StartEv(t, th1, "False")
               /\ UNCHANGED proc
          ELSE /\ proc' = [proc EXCEPT ![p].state = STARTING,
                                       ![p].mode = m,
                                       ![p].mode_start_time = now,
                                       ![p].lock = t]
               /\ thr' = [thr EXCEPT ![t] = [th1 EXCEPT !.pc = "start_locked"]]
               /\ ret' = {}
     /\ UNCHANGED <<now, processors, tmLock, configEmails, dataVars>>

\* variant: the cause of the failure is not recorded
StartFailed_NoCause(pr, cause) == [pr EXCEPT !.state = ERROR, !.lock = NoThread]

\* the processor fields when start() leaves through one of its error exits
StartFailed(pr, cause) ==
  [pr EXCEPT !.state = ERROR, !.last_error = cause, !.lock = NoThread]

\* connection test, folder validation, _setup_jobs, scheduler.start();
\* conn and folders are the results of _test_connection and of
\* _validate_and_setup_folders
StartFinish(t, conn, folders) ==
  LET th == thr[t]
      p == th.p
      pr == proc[p]
      withJobs == [pr EXCEPT !.jobs = pr.jobs \cup JobsOf(pr.mode)]
      tested == {Ret(t, "_test_connection", NoArg,
                     IF conn THEN "True" ELSE "False")}
      setup == {Ret(t, "_setup_jobs", NoArg, "None")}
  IN /\ th.pc = "start_locked"
     /\ conn \/ folders
     /\ thr' = [thr EXCEPT ![t] = IdleThread]
     /\ IF ~conn
          THEN /\ proc' = [proc EXCEPT ![p] = StartFailed(pr, "connect")]
               /\ ret' = tested \cup StartEv(t, th, "False")
          ELSE IF ~folders
          THEN /\ proc' = [proc EXCEPT ![p] = StartFailed(pr, "folders")]
               /\ ret' = tested \cup StartEv(t, th, "False")
          ELSE IF pr.running
          \* scheduler.start() on a running scheduler raises
          THEN /\ proc' = [proc EXCEPT ![p] = StartFailed(withJobs, "exception")]
               /\ ret' = tested \cup setup \cup StartEv(t, th, "False")
          ELSE /\ proc' = [proc EXCEPT ![p] =
                             [withJobs EXCEPT !.running = TRUE,
                                              !.state = RunningState(th.arg),
                                              !.lock = NoThread]]
               /\ ret' = tested \cup setup \cup StartEv(t, th, "True")
     /\ UNCHANGED <<now, processors, tmLock, configEmails, dataVars>>

\* ---- EmailProcessor.stop, called on a request thread ----
\* acquire the lock; return at once in STOPPED/STOPPING; else STOPPING and
\* scheduler.shutdown(wait=True), which marks the scheduler stopped and then
\* waits for the jobs in flight
StopBegin(t) ==
  LET th == thr[t]
      direct == th.pc = "idle"
      p == IF direct THEN Lookup(th.acct) ELSE th.p
      th1 == IF direct THEN [th EXCEPT !.ctx = "stop", !.p = p] ELSE th
  IN /\ th.pc \in {"idle", "stop_call"}
     /\ p # NoProc
     /\ proc[p].lock = NoThread
     /\ IF StopNoop(proc[p].state)
          THEN /\ thr' = [thr EXCEPT ![t] = StopThr(th1, "True")]
               /\ ret' = StopEv(t, th1, "True")
               /\ UNCHANGED proc
          ELSE IF proc[p].running
          THEN /\ proc' = [proc EXCEPT ![p].state = STOPPING,
                                       ![p].running = FALSE,
                                       ![p].lock = t]
               /\ thr' = [thr EXCEPT ![t] = [th1 EXCEPT !.pc = "stop_wait"]]
               /\ ret' = {}
          ELSE /\ proc' = [proc EXCEPT ![p].state = StoppedState]
               /\ thr' = [thr EXCEPT ![t] = StopThr(th1, "True")]
               /\ ret' = StopEv(t, th1, "True")
     /\ UNCHANGED <<now, processors, tmLock, configEmails, dataVars>>

\* shutdown(wait=True) returns once no job is in flight; the job store is
\* emptied; state = STOPPED
StopFinish(t) ==
  LET th == thr[t]
      p == th.p
  IN /\ th.pc = "stop_wait"
     /\ proc[p].inbox = "idle"
     /\ proc[p].folders = 0
     /\ proc' = [proc EXCEPT ![p].state = StoppedState,
                             ![p].jobs = {},
                             ![p].lock = NoThread]
     /\ thr' = [thr EXCEPT ![t] = StopThr(th, "True")]
     /\ ret' = StopEv(t, th, "True")
     /\ UNCHANGED <<now, processors, tmLock, configEmails, dataVars>>

\* ---- EmailProcessor.restart ----
\* current_mode = self.mode, then stop()
RestartBegin(t) ==
  LET th == thr[t]
      p == Lookup(th.acct)
  IN /\ th.pc = "idle"
     /\ p # NoProc
     /\ thr' = [thr EXCEPT ![t] = [th EXCEPT !.pc = "stop_call",
                                             !.ctx = "restart", !.p = p,
                                             !.saved = proc[p].mode]]
     /\ ret' = {}
     /\ UNCHANGED <<proc, now, processors, tmLock, configEmails, dataVars>>

\* ---- EmailProcessor.switch_mode ----
\* the unlocked test self.mode == new_mode
SwitchPre(t, m) ==
  LET th == thr[t]
      p == Lookup(th.acct)
  IN /\ th.pc = "idle"
     /\ p # NoProc
     /\ IF SameMode(proc[p].mode, m)
          THEN /\ thr' = thr
               /\ ret' = {Ret(t, "switch_mode", m, "True")}
          ELSE /\ thr' = [thr EXCEPT ![t] =
                            [th EXCEPT !.pc = "switch_call", !.ctx = "switch",
                                       !.p = p, !.arg = m]]
               /\ ret' = {}
     /\ UNCHANGED <<proc, now, processors, tmLock, configEmails, dataVars>>

\* acquire the lock and test the state
SwitchBegin(t) ==
  LET th == thr[t]
      p == th.p
  IN /\ th.pc = "switch_call"
     /\ proc[p].lock = NoThread
     /\ IF ~SwitchAllowed(proc[p].state)
          THEN /\ thr' = [thr EXCEPT ![t] = IdleThread]
               /\ ret' = {Ret(t, "switch_mode", th.arg, "False")}
               /\ UNCHANGED proc
          ELSE /\ proc' = [proc EXCEPT ![p].lock = t]
               /\ thr' = [thr EXCEPT ![t] = [th EXCEPT !.pc = "switch_locked"]]
               /\ ret' = {}
     /\ UNCHANGED <<now, processors, tmLock, configEmails, dataVars>>

\* remove_all_jobs, mode, state, mode_start_time, _setup_jobs
SwitchFinish(t) ==
  LET th == thr[t]
      p == th.p
  IN /\ th.pc = "switch_locked"
     /\ proc' = [proc EXCEPT ![p].jobs = JobsOf(th.arg),
                             ![p].mode = th.arg,
                             ![p].state = RunningState(th.arg),
                             ![p].mode_start_time = now,
                             ![p].lock = NoThread]
     /\ thr' = [thr EXCEPT ![t] = IdleThread]
     /\ ret' = {Ret(t, "_setup_jobs", NoArg, "None"),
               Ret(t, "switch_mode", th.arg, "True")}
     /\ UNCHANGED <<now, processors, tmLock, configEmails, dataVars>>

\* ---- _handle_processing_error (no lock taken) ----
\* the processor fields after one more failure
HandleError(pr) ==
  LET n == pr.consecutive_errors + 1
  IN [pr EXCEPT !.consecutive_errors = n,
                !.last_error = "job",
                !.state = IF n >= max_consecutive_errors THEN ERROR
                          ELSE pr.state]

\* ---- EmailProcessor.process_manual_batch, on a request thread ----
\* variant: the batch is accepted in both running states
BatchAllowed_AnyRunning(st) == st \in RunningStates

\* the test before the try block: self.state != RUNNING_STARTUP raises
BatchAllowed(st) == st = RUNNING_STARTUP

\* state test, rules, training folders; the thread is then inside
\* process_inbox_batch
BatchBegin(t) ==
  LET th == thr[t]
      p == Lookup(th.acct)
  IN /\ th.pc = "idle"
     /\ p # NoProc
     /\ IF ~BatchAllowed(proc[p].state)
          THEN /\ thr' = thr
               /\ ret' = {Ret(t, "process_manual_batch", NoArg, "ValueError")}
          ELSE /\ thr' = [thr EXCEPT ![t] =
                            [th EXCEPT !.pc = "batch_run", !.ctx = "batch",
                                       !.p = p]]
               /\ ret' = {}
     /\ UNCHANGED <<proc, now, processors, tmLock, configEmails, dataVars>>

\* process_inbox_batch returned: the thread goes on to _update_stats
BatchClassified(t) ==
  /\ thr[t].pc = "batch_run"
  /\ thr' = [thr EXCEPT ![t].pc = "batch_stats"]
  /\ ret' = {}
  /\ UNCHANGED <<proc, now, processors, tmLock, configEmails, dataVars>>

\* _update_stats under the lock, consecutive_errors = 0, result returned
BatchStats(t) ==
  LET th == thr[t]
      p == th.p
  IN /\ th.pc = "batch_stats"
     /\ proc[p].lock = NoThread
     /\ proc' = [proc EXCEPT ![p].consecutive_errors = 0]
     /\ thr' = [thr EXCEPT ![t] = IdleThread]
     /\ ret' = {Ret(t, "process_manual_batch", NoArg, "True")}
     /\ UNCHANGED <<now, processors, tmLock, configEmails, dataVars>>

\* process_inbox_batch raised: error handler, stop() at the ceiling
BatchFail(t) ==
  LET th == thr[t]
      p == th.p
      pr == HandleError(proc[p])
      ceiling == pr.consecutive_errors >= max_consecutive_errors
  IN /\ th.pc = "batch_run"
     /\ proc[p].consecutive_errors < ErrorCap
     /\ proc' = [proc EXCEPT ![p] = pr]
     /\ thr' = [thr EXCEPT ![t] =
                  IF ceiling THEN [th EXCEPT !.pc = "stop_call"]
                  ELSE IdleThread]
     /\ ret' = IF ceiling THEN {}
               ELSE {Ret(t, "process_manual_batch", NoArg, "False")}
     /\ UNCHANGED <<now, processors, tmLock, configEmails, dataVars>>

\* ---- the scheduler's worker threads ----
\* the interval trigger of the inbox job fires (one instance per job id)
InboxFire(p) ==
  /\ proc[p].alive
  /\ proc[p].running
  /\ InboxJob \in proc[p].jobs
  /\ proc[p].inbox = "idle"
  /\ proc' = [proc EXCEPT ![p].inbox = "run"]
  /\ ret' = {}
  /\ UNCHANGED <<thr, now, processors, tmLock, configEmails, dataVars>>

\* process_inbox_maint returned: the job goes on to _update_stats
InboxClassified(p) ==
  /\ proc[p].inbox = "run"
  /\ proc' = [proc EXCEPT ![p].inbox = "stats"]
  /\ ret' = {}
  /\ UNCHANGED <<thr, now, processors, tmLock, configEmails, dataVars>>

\* _update_stats under the lock, consecutive_errors = 0
InboxStats(p) ==
  /\ proc[p].inbox = "stats"
  /\ proc[p].lock = NoThread
  /\ proc' = [proc EXCEPT ![p].consecutive_errors = 0, ![p].inbox = "idle"]
  /\ ret' = {}
  /\ UNCHANGED <<thr, now, processors, tmLock, configEmails, dataVars>>

\* process_inbox_maint raised: error handler, stop() at the ceiling
InboxFail(p) ==
  LET pr == HandleError(proc[p])
  IN /\ proc[p].inbox = "run"
     /\ proc[p].consecutive_errors < ErrorCap
     /\ proc' = [proc EXCEPT ![p] =
                   [pr EXCEPT !.inbox =
                      IF pr.consecutive_errors >= max_consecutive_errors
                        THEN "stop_call" ELSE "idle"]]
     /\ ret' = {}
     /\ UNCHANGED <<thr, now, processors, tmLock, configEmails, dataVars>>

\* stop() called by the error handler on the job's own worker thread:
\* scheduler.shutdown(wait=True) marks the scheduler stopped and then joins
\* the pool's threads, the calling one included, which raises RuntimeError
\* before the job store is emptied; stop() catches it
InboxHandlerStop(p) ==
  /\ proc[p].inbox = "stop_call"
  /\ proc[p].lock = NoThread
  /\ IF StopNoop(proc[p].state)
       THEN /\ proc' = [proc EXCEPT ![p].inbox = "idle"]
            /\ ret' = {Ret(JobThread, "stop", NoArg, "True")}
       ELSE IF proc[p].running
       THEN /\ proc' = [proc EXCEPT ![p].running = FALSE,
                                    ![p].state = ERROR,
                                    ![p].last_error = "shutdown",
                                    ![p].inbox = "idle"]
            /\ ret' = {Ret(JobThread, "stop", NoArg, "False")}
       ELSE /\ proc' = [proc EXCEPT ![p].state = StoppedState,
                                    ![p].inbox = "idle"]
            /\ ret' = {Ret(JobThread, "stop", NoArg, "True")}
  /\ UNCHANGED <<thr, now, processors, tmLock, configEmails, dataVars>>

\* a training-folder job fires / completes.  The three jobs take no lock
\* and touch no field of the processor; folders counts the instances in
\* flight, at most one per installed job id
FolderFire(p) ==
  /\ proc[p].alive
  /\ proc[p].running
  /\ proc[p].folders < Cardinality(proc[p].jobs \cap FolderJobs)
  /\ proc' = [proc EXCEPT ![p].folders = proc[p].folders + 1]
  /\ ret' = {}
  /\ UNCHANGED <<thr, now, processors, tmLock, configEmails, dataVars>>

FolderDone(p) ==
  /\ proc[p].folders > 0
  /\ proc' = [proc EXCEPT ![p].folders = proc[p].folders - 1]
  /\ ret' = {}
  /\ UNCHANGED <<thr, now, processors, tmLock, configEmails, dataVars>>

\* time passes
Tick ==
  /\ now < MaxClock
  /\ now' = now + 1
  /\ ret' = {}
  /\ UNCHANGED <<proc, thr, processors, tmLock, configEmails, dataVars>>

\* ---- TaskManager ----
\* the processor object add_account constructs: the first one not yet in use
FreshProc == CHOOSE p \in Procs : ~proc[p].alive /\ \A q \in Procs : q < p => proc[q].alive

\* the thread record when add_account / remove_account returns to th
TmThr(th) ==
  IF th.outer = "refresh"
    THEN [th EXCEPT !.pc = "refresh_loop", !.ctx = "none", !.p = NoProc]
    ELSE IdleThread

\* add_account(account_config for e): under the registry lock, reject a known
\* email, else construct the processor and register it
AddAccount(t, e) ==
  LET th == thr[t]
  IN /\ th.pc \in {"idle", "add_call"}
     /\ th.pc = "add_call" => e = th.acct
     /\ tmLock = NoThread
     /\ thr' = [thr EXCEPT ![t] = TmThr(th)]
     /\ IF e \in Registered
          THEN /\ ret' = {Ret(t, "add_account", e, "False")}
               /\ UNCHANGED <<proc, processors>>
          ELSE /\ \E p \in Procs : ~proc[p].alive
               /\ proc' = [proc EXCEPT ![FreshProc] = NewProcessor]
               /\ processors' = [processors EXCEPT ![e] = FreshProc]
               /\ ret' = {Ret(t, "add_account", e, "True")}
     /\ UNCHANGED <<now, tmLock, configEmails, dataVars>>

\* remove_account(e): take the registry lock; unknown email -> False; a
\* processor that is not STOPPED is stopped by processor.stop() first
RemoveBegin(t, e) ==
  LET th == thr[t]
      p == processors[e]
  IN /\ th.pc \in {"idle", "remove_call"}
     /\ th.pc = "remove_call" => e = th.acct
     /\ tmLock = NoThread
     /\ IF e \notin Registered
          THEN /\ thr' = [thr EXCEPT ![t] = TmThr(th)]
               /\ ret' = {Ret(t, "remove_account", e, "False")}
               /\ UNCHANGED tmLock
          ELSE /\ tmLock' = t
               /\ thr' = [thr EXCEPT ![t] =
                            [th EXCEPT !.pc = IF proc[p].state # STOPPED
                                                THEN "stop_call"
                                                ELSE "remove_del",
                                       !.ctx = "remove", !.p = p, !.acct = e]]
               /\ ret' = {}
     /\ UNCHANGED <<proc, now, processors, configEmails, dataVars>>

\* del self.processors[e]; the registry lock is released; True
RemoveFinish(t) ==
  LET th == thr[t]
  IN /\ th.pc = "remove_del"
     /\ processors' = [processors EXCEPT ![th.acct] = NoProc]
     /\ tmLock' = NoThread
     /\ thr' = [thr EXCEPT ![t] = TmThr(th)]
     /\ ret' = {Ret(t, "remove_account", th.acct, "True")}
     /\ UNCHANGED <<proc, now, configEmails, dataVars>>

\* refresh_accounts_from_config: reload the configuration, to_remove and
\* to_add from the registry's keys (no lock taken)
RefreshBegin(t) ==
  LET th == thr[t]
  IN /\ th.pc = "idle"
     /\ thr' = [thr EXCEPT ![t] =
                  [th EXCEPT !.pc = "refresh_loop", !.outer = "refresh",
                             !.rm = Registered \ configEmails,
                             !.ad = configEmails \ Registered]]
     /\ ret' = {}
     /\ UNCHANGED <<proc, now, processors, tmLock, configEmails, dataVars>>

\* the two loops: remove_account for each of to_remove, then add_account
\* for each of to_add
RefreshStep(t) ==
  LET th == thr[t]
  IN /\ th.pc = "refresh_loop"
     /\ IF th.rm # {}
          THEN /\ \E e \in th.rm :
                    thr' = [thr EXCEPT ![t] =
                              [th EXCEPT !.pc = "remove_call", !.acct = e,
                                         !.rm = th.rm \ {e}]]
               /\ ret' = {}
          ELSE IF th.ad # {}
          THEN /\ \E e \in th.ad :
                    thr' = [thr EXCEPT ![t] =
                              [th EXCEPT !.pc = "add_call", !.acct = e,
                                         !.ad = th.ad \ {e}]]
               /\ ret' = {}
          ELSE /\ thr' = [thr EXCEPT ![t] = IdleThread]
               /\ ret' = {Ret(t, "refresh_accounts_from_config", NoArg, "None")}
     /\ UNCHANGED <<proc, now, processors, tmLock, configEmails, dataVars>>

\* the configuration file is saved with another set of accounts
EditConfig(E) ==
  /\ E # configEmails
  /\ configEmails' = E
  /\ ret' = {}
  /\ UNCHANGED <<proc, thr, now, processors, tmLock, dataVars>>

\* ---- one processor, registered for account a1 ----
SvcInit ==
  /\ proc = [p \in Procs |-> IF p = 1 THEN NewProcessor ELSE Unborn]
  /\ thr = [t \in Clients |-> IdleThread]
  /\ now = 0
  /\ processors = [e \in Emails |-> 1]
  /\ tmLock = NoThread
  /\ configEmails = Emails
  /\ ret = {}

\* ServiceStats(): the counters of a new processor
NewStats == [emails_processed |-> 0, emails_pending |-> 0, error_count |-> 0]

\* no call of get_aggregate_stats in progress, none returned yet
IdleAgg ==
  [pc |-> "idle", todo |-> {}, snap |-> <<>>, total |-> NoTime,
   running_accounts |-> NoTime, startup_mode_accounts |-> NoTime]

\* TaskManager.__init__ and EmailProcessor.__init__ for the processors whose
\* statistics are followed
StatInit ==
  /\ stats = [q \in StatProcs |-> NewStats]
  /\ plock = [q \in StatProcs |-> NoThread]
  /\ upd = [q \in StatProcs |-> [pc |-> "idle", n |-> 0]]
  /\ agg = IdleAgg
  /\ initialized = FALSE

\* an empty mailbox, empty lists, nothing run
MailIdle ==
  /\ mbox = <<>>
  /\ sender = <<>>
  /\ lists = [l \in ListNames |-> {}]
  /\ account = [gmail |-> FALSE, purge |-> FALSE]
  /\ imaplog = <<>>
  /\ report = NoReport

\* what a reader that has not read holds
NotRead == <<"none">>

\* a list writer, and a saver, at rest
IdleWriter == [pc |-> "idle", lines |-> <<>>, item |-> "none"]
IdleSaver == [pc |-> "idle", file |-> "none", doc |-> 0]

\* an empty list file and nobody writing it
ListIdle ==
  /\ lfile = <<>>
  /\ lw = [w \in ListWriters |-> IdleWriter]
  /\ lread = NotRead

\* no file in the configuration directory, nobody saving
FileIdle ==
  /\ fs = [f \in FileNames |-> NoFile]
  /\ fw = [w \in Savers |-> IdleSaver]
  /\ seen = NotRead

\* no retention policy, no message, no retention run
RetIdle ==
  /\ settings = [saved |-> FALSE, folder_policies |-> <<>>, rule_policies |-> <<>>]
  /\ rmsgs = <<>>
  /\ today = 0
  /\ audit = <<>>
  /\ rrun = NoRetRun

\* no scheduler started, no audit line written, no manager built
SchedIdle ==
  /\ sched = [running |-> FALSE, last_execution |-> NoTime]
  /\ sthr = [t \in SchedThreads |-> [pc |-> "unborn", wake |-> 0]]
  /\ clk = 0
  /\ execs = {}

AlogIdle == alog = <<>> /\ aq = NoQuery

MemIdle ==
  /\ mem = [m \in Managers |-> NotBuilt]
  /\ done = {}

PstateIdle == pstate = [q \in StatProcs |-> [state |-> STOPPED, mode |-> STARTUP]]

ExtIdle == SchedIdle /\ AlogIdle /\ MemIdle /\ PstateIdle

StoreIdle == ListIdle /\ FileIdle /\ RetIdle /\ ExtIdle

\* the log of a run that has not happened
NoRun == [account |-> "none"]

\* no rules.json, no run of the rules
RuleIdle == rules_file = <<>> /\ runlog = <<>> /\ rule_report = NoRun

DataInit ==
  StatInit /\ last_transition_check = 0 /\ MailIdle /\ RuleIdle /\ StoreIdle

Init == SvcInit /\ DataInit

Next ==
  \/ \E t \in Clients, m \in ProcessingMode : StartBegin(t, m)
  \/ \E t \in Clients, conn \in BOOLEAN, folders \in BOOLEAN :
       StartFinish(t, conn, folders)
  \/ \E t \in Clients : StopBegin(t)
  \/ \E t \in Clients : StopFinish(t)
  \/ \E t \in Clients : RestartBegin(t)
  \/ \E t \in Clients, m \in ProcessingMode : SwitchPre(t, m)
  \/ \E t \in Clients : SwitchBegin(t)
  \/ \E t \in Clients : SwitchFinish(t)
  \/ \E t \in Clients : BatchBegin(t)
  \/ \E t \in Clients : BatchClassified(t)
  \/ \E t \in Clients : BatchStats(t)
  \/ \E t \in Clients : BatchFail(t)
  \/ \E p \in Procs : InboxFire(p)
  \/ \E p \in Procs : InboxClassified(p)
  \/ \E p \in Procs : InboxStats(p)
  \/ \E p \in Procs : InboxFail(p)
  \/ \E p \in Procs : InboxHandlerStop(p)
  \/ \E p \in Procs : FolderFire(p)
  \/ \E p \in Procs : FolderDone(p)
  \/ Tick

Spec == Init /\ [][Next]_vars

\* ---- the task manager with an empty registry ----
InitTM ==
  /\ proc = [p \in Procs |-> Unborn]
  /\ thr = [t \in Clients |-> IdleThread]
  /\ now = 0
  /\ processors = [e \in Emails |-> NoProc]
  /\ tmLock = NoThread
  /\ configEmails = Emails
  /\ ret = {}
  /\ DataInit

NextTM ==
  \/ \E t \in Clients, e \in Emails : AddAccount(t, e)
  \/ \E t \in Clients, e \in Emails : RemoveBegin(t, e)
  \/ \E t \in Clients : RemoveFinish(t)
  \/ \E t \in Clients : RefreshBegin(t)
  \/ \E t \in Clients : RefreshStep(t)
  \/ \E E \in SUBSET Emails : EditConfig(E)
  \/ \E t \in Clients, m \in ProcessingMode : StartBegin(t, m)
  \/ \E t \in Clients, conn \in BOOLEAN, folders \in BOOLEAN :
       StartFinish(t, conn, folders)
  \/ \E t \in Clients : StopBegin(t)
  \/ \E t \in Clients : StopFinish(t)
  \/ \E p \in Procs : InboxFire(p)
  \/ \E p \in Procs : InboxClassified(p)
  \/ \E p \in Procs : InboxStats(p)
  \/ \E p \in Procs : FolderFire(p)
  \/ \E p \in Procs : FolderDone(p)

TMSpec == InitTM /\ [][NextTM]_vars

\* ---- start, stop and the scheduler's jobs, with the threads' progress ----
NextLive ==
  \/ \E t \in Clients, m \in ProcessingMode : StartBegin(t, m)
  \/ \E t \in Clients, conn \in BOOLEAN, folders \in BOOLEAN :
       StartFinish(t, conn, folders)
  \/ \E t \in Clients : StopBegin(t)
  \/ \E t \in Clients : StopFinish(t)
  \/ \E p \in Procs : InboxFire(p)
  \/ \E p \in Procs : InboxClassified(p)
  \/ \E p \in Procs : InboxStats(p)
  \/ \E p \in Procs : InboxFail(p)
  \/ \E p \in Procs : InboxHandlerStop(p)
  \/ \E p \in Procs : FolderFire(p)
  \/ \E p \in Procs : FolderDone(p)

\* a thread that can take its next step takes it; a job in flight ends
Progress ==
  /\ WF_vars(\E t \in Clients, conn \in BOOLEAN, folders \in BOOLEAN :
               StartFinish(t, conn, folders))
  /\ WF_vars(\E t \in Clients : StopFinish(t))
  /\ WF_vars(\E p \in Procs : InboxClassified(p) \/ InboxFail(p))
  /\ WF_vars(\E p \in Procs : InboxStats(p))
  /\ WF_vars(\E p \in Procs : InboxHandlerStop(p))
  /\ WF_vars(\E p \in Procs : FolderDone(p))

FairSpec == Init /\ [][NextLive]_vars /\ Progress

\* ======================= properties =======================
\* the processor a call of thread t is made on
Target(t) == IF thr[t].pc = "idle" THEN Lookup(thr[t].acct) ELSE thr[t].p

\* call op returned v on thread t in the last step
Returned(t, op, v) == \E e \in ret : e.t = t /\ e.op = op /\ e.v = v
ReturnedNow(t, op, v) == \E e \in ret' : e.t = t /\ e.op = op /\ e.v = v
ReturnsNow(t, op) == \E e \in ret' : e.t = t /\ e.op = op

\* the fields start() and switch_mode() must leave alone when they refuse
SameProcessor(p) ==
  /\ proc'[p].state = proc[p].state
  /\ proc'[p].mode = proc[p].mode
  /\ proc'[p].mode_start_time = proc[p].mode_start_time
  /\ proc'[p].last_error = proc[p].last_error
  /\ proc'[p].jobs = proc[p].jobs
  /\ proc'[p].running = proc[p].running

AllJobs == {"inbox_maintenance", "folder_white", "folder_black", "folder_vendor"}

\* C1: start(mode) on a processor whose state is not STOPPED returns False
\* and leaves state, mode, mode_start_time, last_error and the scheduler
\* (running flag and job set) unchanged.
C1_StartRejected ==
  [][\A t \in Clients :
       (/\ thr[t].pc \in {"idle", "start_call"}
        /\ thr'[t].pc = "start_locked" \/ ReturnsNow(t, "start")
        /\ proc[Target(t)].state # STOPPED)
       => /\ ReturnedNow(t, "start", "False")
          /\ SameProcessor(Target(t))]_vars

\* a start() was refused on a running processor
C1_Witness ==
  \E t \in Clients : Returned(t, "start", "False")
                     /\ proc[1].state \in RunningStates

\* C2 (as claimed): stop() that finds RUNNING_STARTUP, RUNNING_MAINTENANCE or
\* STARTING returns True and leaves STOPPED with the scheduler shut down,
\* on a request thread and on the job thread of the error handler alike;
\* stop() that finds STOPPED returns True and changes nothing.
C2_StopStops ==
  [][/\ \A t \in Clients :
          /\ (thr[t].pc = "stop_wait" /\ thr'[t].pc # "stop_wait")
             => /\ ReturnedNow(t, "stop", "True")
                /\ proc'[thr[t].p].state = STOPPED
                /\ ~proc'[thr[t].p].running
          /\ (/\ thr[t].pc \in {"idle", "stop_call"}
              /\ thr'[t].pc = "stop_wait" \/ ReturnsNow(t, "stop")
              /\ proc[Target(t)].state
                   \in {RUNNING_STARTUP, RUNNING_MAINTENANCE, STARTING})
             => \/ thr'[t].pc = "stop_wait"
                \/ /\ ReturnedNow(t, "stop", "True")
                   /\ proc'[Target(t)].state = STOPPED
                   /\ ~proc'[Target(t)].running
          /\ (/\ thr[t].pc \in {"idle", "stop_call"}
              /\ ReturnsNow(t, "stop")
              /\ proc[Target(t)].state = STOPPED)
             => /\ ReturnedNow(t, "stop", "True")
                /\ proc'[Target(t)] = proc[Target(t)]
     /\ \A p \in Procs :
          (/\ proc[p].inbox = "stop_call"
           /\ proc'[p].inbox = "idle"
           /\ proc[p].state \in {RUNNING_STARTUP, RUNNING_MAINTENANCE, STARTING})
          => /\ ReturnedNow(JobThread, "stop", "True")
             /\ proc'[p].state = STOPPED
             /\ ~proc'[p].running]_vars

\* C3 (as claimed): every call of stop() eventually returns, on a request
\* thread that waits for the scheduler and on the job thread of the error
\* handler.
C3_StopReturns ==
  /\ \A t \in Clients :
       (thr[t].pc \in {"stop_call", "stop_wait"})
         ~> (thr[t].pc \notin {"stop_call", "stop_wait"})
  /\ \A p \in Procs : (proc[p].inbox = "stop_call") ~> (proc[p].inbox = "idle")

\* C4: when the connection test fails in start() from STOPPED, start returns
\* False, the state is ERROR, last_error is the connection failure, the
\* scheduler is not running and start has installed no job.
C4_ConnectionFailure ==
  [][\A t \in Clients :
       (thr[t].pc = "start_locked"
        /\ ReturnedNow(t, "_test_connection", "False"))
       => /\ ReturnedNow(t, "start", "False")
          /\ ~ReturnedNow(t, "start", "True")
          /\ ~ReturnsNow(t, "_setup_jobs")
          /\ proc'[thr[t].p].state = ERROR
          /\ proc'[thr[t].p].last_error = "connect"
          /\ ~proc'[thr[t].p].running
          /\ proc'[thr[t].p].jobs = proc[thr[t].p].jobs]_vars

\* a start() has just failed its connection test
C4_Witness ==
  \E t \in Clients : /\ Returned(t, "_test_connection", "False")
                     /\ Returned(t, "start", "False")
                     /\ proc[1].state = ERROR

\* C5: switch_mode(m) with m other than the current mode, in RUNNING_STARTUP
\* or RUNNING_MAINTENANCE, goes through and returns True with mode = m, the
\* RUNNING_* state of m, exactly the jobs of m installed (none for startup,
\* the inbox job and the three folder jobs for maintenance) and
\* mode_start_time = now.
C5_SwitchMode ==
  [][\A t \in Clients :
       /\ (/\ thr[t].pc = "switch_call"
           /\ thr'[t].pc # "switch_call"
           /\ proc[thr[t].p].state \in RunningStates)
          => thr'[t].pc = "switch_locked"
       /\ (thr[t].pc = "switch_locked" /\ thr'[t].pc # "switch_locked")
          => LET m == thr[t].arg
                 q == proc'[thr[t].p]
             IN /\ ReturnedNow(t, "switch_mode", "True")
                /\ ~ReturnedNow(t, "switch_mode", "False")
                /\ q.mode = m
                /\ q.state = (IF m = STARTUP THEN RUNNING_STARTUP
                              ELSE RUNNING_MAINTENANCE)
                /\ q.jobs = (IF m = STARTUP THEN {} ELSE AllJobs)
                /\ q.mode_start_time = now]_vars

\* a switch to maintenance has just installed the four jobs, after the
\* clock moved on from the start
C5_Witness ==
  \E t \in Clients : /\ Returned(t, "_setup_jobs", "None")
                     /\ Returned(t, "switch_mode", "True")
                     /\ proc[1].mode = MAINTENANCE
                     /\ proc[1].jobs = AllJobs
                     /\ proc[1].mode_start_time = now
                     /\ now > 0

\* C6 (as claimed): switch_mode called in a state other than RUNNING_STARTUP
\* and RUNNING_MAINTENANCE returns False and changes nothing.
C6_SwitchOnlyWhenRunning ==
  [][\A t \in Clients :
       (/\ thr[t].pc \in {"idle", "switch_call"}
        /\ ReturnsNow(t, "switch_mode")
        /\ proc[Target(t)].state \notin RunningStates)
       => /\ ReturnedNow(t, "switch_mode", "False")
          /\ SameProcessor(Target(t))]_vars

\* C6 (amended): switch_mode(m) with m other than the current mode goes
\* through only when it finds RUNNING_STARTUP or RUNNING_MAINTENANCE under
\* the lock, in any other state it returns False and changes nothing;
\* switch_mode(m) with m the current mode returns True in every state and
\* changes nothing.
C6_SwitchOtherModeOnlyWhenRunning ==
  [][\A t \in Clients :
       /\ (/\ thr[t].pc = "switch_call"
           /\ thr'[t].pc # "switch_call"
           /\ proc[thr[t].p].state \notin RunningStates)
          => /\ ReturnedNow(t, "switch_mode", "False")
             /\ ~ReturnedNow(t, "switch_mode", "True")
             /\ SameProcessor(thr[t].p)
       /\ (thr[t].pc = "switch_call" /\ thr'[t].pc = "switch_locked")
          => proc[thr[t].p].state \in RunningStates
       /\ (thr[t].pc = "idle" /\ ReturnsNow(t, "switch_mode"))
          => /\ Ret(t, "switch_mode", proc[Target(t)].mode, "True") \in ret'
             /\ Cardinality(ret') = 1
             /\ proc' = proc]_vars

\* a switch_mode to the other mode was refused on a processor not running
C6_Witness ==
  \E t \in Clients : /\ Returned(t, "switch_mode", "False")
                     /\ proc[1].state \in {STOPPED, ERROR}

\* C7: restart() is stop() then start(mode read at the call): when it
\* returns True that start returned True in the same step and the processor
\* is in the RUNNING_* state of that mode; when its stop or its start
\* returns False, restart returns False.
C7_Restart ==
  [][\A t \in Clients :
       thr[t].ctx = "restart"
       => /\ ReturnedNow(t, "restart", "True")
             => /\ Ret(t, "start", thr[t].saved, "True") \in ret'
                /\ proc'[thr[t].p].mode = thr[t].saved
                /\ proc'[thr[t].p].state =
                     (IF thr[t].saved = STARTUP THEN RUNNING_STARTUP
                      ELSE RUNNING_MAINTENANCE)
                /\ proc'[thr[t].p].running
          /\ (ReturnedNow(t, "stop", "False") \/ ReturnedNow(t, "start", "False"))
             => /\ ReturnedNow(t, "restart", "False")
                /\ ~ReturnedNow(t, "restart", "True")
          /\ ReturnsNow(t, "start")
             => \E e \in ret' : e.t = t /\ e.op = "start" /\ e.a = thr[t].saved]_vars

\* a restart of a maintenance-mode processor has just returned True
C7_Witness ==
  \E t \in Clients : /\ Returned(t, "restart", "True")
                     /\ proc[1].state = RUNNING_MAINTENANCE

\* C8 (as claimed): when the error handler has run to completion at the
\* ceiling of 5 consecutive failures (its stop() has returned), the state is
\* ERROR and the scheduler is not running.
C8_ErrorAfterCeiling ==
  [][/\ \A t \in Clients :
          (/\ thr[t].ctx = "batch"
           /\ thr[t].pc \in {"stop_call", "stop_wait"}
           /\ ReturnsNow(t, "stop"))
          => /\ proc'[thr[t].p].state = ERROR
             /\ ~proc'[thr[t].p].running
     /\ \A p \in Procs :
          (proc[p].inbox = "stop_call" /\ proc'[p].inbox = "idle")
          => /\ proc'[p].state = ERROR
             /\ ~proc'[p].running]_vars

\* the classification jobs of processor p in flight: manual batches inside
\* process_inbox_batch and the inbox job inside process_inbox_maint
Classifying(p) ==
  Cardinality({t \in Clients : thr[t].pc = "batch_run" /\ thr[t].p = p})
  + (IF proc[p].inbox = "run" THEN 1 ELSE 0)

\* C9 (as claimed): at most one classification job of an account is
\* executing at any time.
C9_OneClassification == \A p \in Procs : Classifying(p) <= 1

\* C10 (as claimed): no thread holds the task manager's registry lock while
\* it is inside a processor's start() or stop().
C10_NoRegistryLockAcrossStartStop ==
  \A t \in Clients :
    tmLock = t =>
      thr[t].pc \notin {"start_call", "start_locked", "stop_call", "stop_wait"}

TypeOK ==
  /\ \A p \in Procs :
       /\ proc[p].state \in ServiceState
       /\ proc[p].mode \in ProcessingMode
       /\ proc[p].consecutive_errors \in 0..ErrorCap
       /\ proc[p].lock \in Clients \cup {NoThread}
       /\ proc[p].jobs \subseteq ({InboxJob} \cup FolderJobs)
  /\ now \in 0..MaxClock

\* ======================= statistics =======================
\* the variables a step of the statistics leaves alone
statFrame == <<svcVars, last_transition_check, mailVars, ruleVars, storeVars>>

\* load_accounts_from_config: self._initialized = True
Initialize ==
  /\ ~initialized
  /\ initialized' = TRUE
  /\ UNCHANGED <<stats, plock, upd, agg, statFrame>>

\* ---- EmailProcessor._update_stats(result, processing_time) ----
\* `with self._lock`; n = result['emails_processed'] of the run that has
\* just finished
UpdateBegin(q, n) ==
  /\ upd[q].pc = "idle"
  /\ plock[q] = NoThread
  /\ stats[q].emails_processed + n <= MaxProcessed
  /\ plock' = [plock EXCEPT ![q] = "worker"]
  /\ upd' = [upd EXCEPT ![q] = [pc |-> "count", n |-> n]]
  /\ UNCHANGED <<stats, agg, initialized, statFrame>>

\* self.stats.emails_processed += result['emails_processed']
UpdateCount(q) ==
  /\ upd[q].pc = "count"
  /\ stats' = [stats EXCEPT ![q].emails_processed = @ + upd[q].n]
  /\ upd' = [upd EXCEPT ![q].pc = "pending"]
  /\ UNCHANGED <<plock, agg, initialized, statFrame>>

\* self.stats.emails_pending = result['inbox_remaining']; the lock is released
UpdatePending(q, left) ==
  /\ upd[q].pc = "pending"
  /\ stats' = [stats EXCEPT ![q].emails_pending = left]
  /\ upd' = [upd EXCEPT ![q] = [pc |-> "idle", n |-> 0]]
  /\ plock' = [plock EXCEPT ![q] = NoThread]
  /\ UNCHANGED <<agg, initialized, statFrame>>

\* ---- EmailProcessor.get_stats_snapshot ----
\* the copy made inside `with self._lock`
Snapshot(q) ==
  [emails_processed |-> stats[q].emails_processed,
   emails_pending |-> stats[q].emails_pending,
   state |-> pstate[q].state,
   mode |-> pstate[q].mode]

\* ---- TaskManager.get_aggregate_stats ----
RECURSIVE SumProcessed(_, _)
SumProcessed(f, S) ==
  IF S = {} THEN 0
  ELSE LET q == CHOOSE x \in S : TRUE
       IN f[q].emails_processed + SumProcessed(f, S \ {q})

\* variant: the total is read from the processors after the loop
TotalProcessed_Live(snap) == SumProcessed(stats, DOMAIN snap)

\* total_processed += snapshot.get('emails_processed', 0) over the snapshots
TotalProcessed(snap) == SumProcessed(snap, DOMAIN snap)

\* running_count: the snapshots whose 'state' is in ['RUNNING_STARTUP',
\* 'RUNNING_MAINTENANCE']; startup_count: those whose 'mode' is 'STARTUP'
RunningCount(snap) ==
  Cardinality({q \in DOMAIN snap :
                 snap[q].state \in {"RUNNING_STARTUP", "RUNNING_MAINTENANCE"}})
StartupCount(snap) ==
  Cardinality({q \in DOMAIN snap : snap[q].mode = "STARTUP"})

\* the call: before initialization the minimal statistics are returned;
\* after it the loop over self.processors starts (TaskManager._lock
\* serialises the calls, so one call at a time is followed)
AggBegin ==
  /\ agg.pc = "idle"
  /\ IF ~initialized
       THEN agg' = [IdleAgg EXCEPT !.total = 0, !.running_accounts = 0,
                                   !.startup_mode_accounts = 0]
       ELSE agg' = [pc |-> "loop", todo |-> StatProcs, snap |-> <<>>,
                    total |-> NoTime]
  /\ UNCHANGED <<stats, plock, upd, initialized, statFrame>>

\* processor_snapshots[email] = processor.get_stats_snapshot(), for the
\* next processor of the registry
AggSnap ==
  LET q == CHOOSE x \in agg.todo : \A y \in agg.todo : x <= y
  IN /\ agg.pc = "loop"
     /\ agg.todo # {}
     /\ plock[q] = NoThread
     /\ agg' = [agg EXCEPT !.todo = @ \ {q},
                           !.snap = @ @@ (q :> Snapshot(q))]
     /\ UNCHANGED <<stats, plock, upd, initialized, statFrame>>

\* the sums over the snapshots; the dictionary is returned
AggFinish ==
  /\ agg.pc = "loop"
  /\ agg.todo = {}
  /\ agg' = [IdleAgg EXCEPT !.total = TotalProcessed(agg.snap),
                           !.running_accounts = RunningCount(agg.snap),
                           !.startup_mode_accounts = StartupCount(agg.snap)]
  /\ UNCHANGED <<stats, plock, upd, initialized, statFrame>>

InitStats ==
  SvcInit /\ StatInit /\ last_transition_check = 0 /\ MailIdle /\ RuleIdle /\ StoreIdle

NextStats ==
  \/ Initialize
  \/ \E q \in StatProcs, n \in 0..MaxBatch : UpdateBegin(q, n)
  \/ \E q \in StatProcs : UpdateCount(q)
  \/ \E q \in StatProcs, left \in 0..MaxBatch : UpdatePending(q, left)
  \/ AggBegin
  \/ AggSnap
  \/ AggFinish

StatsSpec == InitStats /\ [][NextStats]_vars

\* C11: every get_aggregate_stats call made after initialization returns
\* as total_emails_processed the sum of emails_processed over the snapshots
\* it took, and each snapshot is the processor's counters at a moment when no
\* thread was inside that processor's lock, whatever the processors add
\* meanwhile.
C11_SnapshotTotal ==
  [][/\ (agg.pc = "loop" /\ agg'.pc = "idle")
          => /\ DOMAIN agg.snap = StatProcs
             /\ agg'.total = SumProcessed(agg.snap, StatProcs)
     /\ \A q \in StatProcs :
          (q \in agg.todo /\ q \notin agg'.todo)
            => /\ upd[q].pc = "idle"
               /\ agg'.snap[q].emails_processed = stats[q].emails_processed
               /\ agg'.snap[q].emails_pending = stats[q].emails_pending]_vars

\* a call has returned a total that the processors have since outgrown
C11_Witness ==
  /\ initialized
  /\ agg.pc = "idle"
  /\ agg.total > 0
  /\ agg.total < SumProcessed(stats, StatProcs)

\* ======================= automatic transition =======================
\* timedelta.days and timedelta.seconds of a difference of d >= 0 seconds
Days(d) == d \div SecondsPerDay
Seconds(d) == d % SecondsPerDay

\* max(1, n)
Max1(n) == IF n > 1 THEN n ELSE 1

\* variant: the consecutive errors are not looked at
ShouldTransition_IgnoreErrors(pr, st, t) ==
  /\ pr.mode = STARTUP
  /\ st.emails_pending < pending_limit
  /\ pr.mode_start_time # NoTime
  /\ Days(t - pr.mode_start_time) >= min_days
  /\ st.error_count * 100 < error_rate_percent * Max1(st.emails_processed)

\* EmailProcessor.should_transition_to_maintenance() of a processor with the
\* fields pr and the counters st, called at time t
ShouldTransition(pr, st, t) ==
  /\ pr.mode = STARTUP
  /\ st.emails_pending < pending_limit
  /\ pr.mode_start_time # NoTime
  /\ Days(t - pr.mode_start_time) >= min_days
  /\ pr.consecutive_errors = 0
  /\ st.error_count * 100 < error_rate_percent * Max1(st.emails_processed)

\* the rate limit of _check_auto_transitions at time t:
\* not ((now - self.last_transition_check).seconds < interval)
CheckDue(t) == ~(Seconds(t - last_transition_check) < transition_check_interval)

\* processor.switch_mode(MAINTENANCE) at time t, as TaskManager.switch_mode
\* calls it: refused outside the running states
AutoSwitched(pr, t) ==
  IF SameMode(pr.mode, MAINTENANCE) \/ ~SwitchAllowed(pr.state) THEN pr
  ELSE [pr EXCEPT !.jobs = JobsOf(MAINTENANCE),
                  !.mode = MAINTENANCE,
                  !.state = RunningState(MAINTENANCE),
                  !.mode_start_time = t]

\* the variables a status poll leaves alone
pollFrame == <<thr, processors, tmLock, configEmails, statVars, mailVars, ruleVars, storeVars>>

\* a request thread calls should_transition_to_maintenance() of the
\* account's processor
TransitionAsked(t) ==
  LET p == Lookup(thr[t].acct)
  IN /\ thr[t].pc = "idle"
     /\ p # NoProc
     /\ ret' = {Ret(t, "should_transition_to_maintenance", NoArg,
                    IF ShouldTransition(proc[p], stats[p], now)
                      THEN "True" ELSE "False")}
     /\ UNCHANGED <<proc, now, last_transition_check, pollFrame>>

\* TaskManager.get_all_status: under the registry lock, get_status() of
\* every processor, then _check_auto_transitions: nothing within the rate
\* limit; else last_transition_check = now and switch_mode(MAINTENANCE) for
\* every processor whose predicate holds
Poll(t) ==
  LET due == CheckDue(now)
      mine == {processors[e] : e \in Registered}
  IN /\ thr[t].pc = "idle"
     /\ tmLock = NoThread
     /\ \A p \in mine : proc[p].lock = NoThread
     /\ last_transition_check' = IF due THEN now ELSE last_transition_check
     /\ proc' = [p \in Procs |->
                   IF due /\ p \in mine /\ ShouldTransition(proc[p], stats[p], now)
                     THEN AutoSwitched(proc[p], now)
                     ELSE proc[p]]
     /\ ret' = {Ret(t, "get_all_status", NoArg, "status"),
               Ret(t, "_check_auto_transitions", NoArg,
                   IF due THEN "checked" ELSE "skipped")}
     /\ UNCHANGED <<now, pollFrame>>

\* the latest time followed
Horizon ==
  min_days * SecondsPerDay + Margin + MaxHours * transition_check_interval

\* d seconds pass
Elapse(d) ==
  /\ now + d <= Horizon
  /\ now' = now + d
  /\ ret' = {}
  /\ UNCHANGED <<proc, last_transition_check, pollFrame>>

\* the values of the counters at a poll: around the thresholds
PendingInputs == {0} \cup ((pending_limit - Margin)..(pending_limit + Margin))
ProcessedInputs ==
  {0} \cup {(100 \div error_rate_percent) * e + k :
              e \in 1..MaxErrors, k \in (0 - Margin)..Margin}
Durations == {transition_check_interval - 1, transition_check_interval}

\* the task manager was constructed and the account's processor started (or
\* left stopped) at time 0; the first poll comes about min_days later
InitPoll ==
  /\ \E m \in ProcessingMode, started \in BOOLEAN, ec \in 0..MaxErrors :
       \E ce \in 0..ec, ep \in ProcessedInputs, pe \in PendingInputs :
         /\ ce < max_consecutive_errors
         /\ started \/ (m = STARTUP /\ ec = 0 /\ ep = 0 /\ pe = 0)
         /\ proc = [p \in Procs |->
              IF p # 1 THEN Unborn
              ELSE IF ~started THEN NewProcessor
              ELSE [NewProcessor EXCEPT !.state = RunningState(m),
                                        !.mode = m,
                                        !.mode_start_time = 0,
                                        !.consecutive_errors = ce,
                                        !.running = TRUE,
                                        !.jobs = JobsOf(m)]]
         /\ stats = [q \in StatProcs |->
              IF q # 1 THEN NewStats
              ELSE [emails_processed |-> ep, emails_pending |-> pe,
                    error_count |-> ec]]
  /\ now \in (min_days * SecondsPerDay - Margin)..(min_days * SecondsPerDay + Margin)
  /\ thr = [t \in Clients |-> IdleThread]
  /\ processors = [e \in Emails |-> 1]
  /\ tmLock = NoThread
  /\ configEmails = Emails
  /\ ret = {}
  /\ plock = [q \in StatProcs |-> NoThread]
  /\ upd = [q \in StatProcs |-> [pc |-> "idle", n |-> 0]]
  /\ agg = IdleAgg
  /\ initialized = TRUE
  /\ last_transition_check = 0
  /\ MailIdle
  /\ RuleIdle
  /\ StoreIdle

NextPoll ==
  \/ \E t \in Clients : TransitionAsked(t)
  \/ \E t \in Clients : Poll(t)
  \/ \E d \in Durations : Elapse(d)

PollSpec == InitPoll /\ [][NextPoll]_vars

\* C12: should_transition_to_maintenance() returns true exactly when the
\* processor is in startup mode, fewer than 50 emails are pending, the mode
\* was entered at least 14 days ago, there is no consecutive error and the
\* errors are fewer than 5% of max(1, emails_processed); any criterion that
\* fails makes it false.
C12_TransitionPredicate ==
  [][\A e \in ret' :
       e.op = "should_transition_to_maintenance" =>
         LET pr == proc[Lookup(thr[e.t].acct)]
             st == stats[Lookup(thr[e.t].acct)]
         IN (e.v = "True") <=>
              /\ pr.mode = STARTUP
              /\ st.emails_pending <= pending_limit - 1
              /\ pr.mode_start_time # NoTime
              /\ now - pr.mode_start_time >= min_days * SecondsPerDay
              /\ pr.consecutive_errors = 0
              /\ st.error_count * 100
                   < error_rate_percent * Max1(st.emails_processed)]_vars

\* the predicate has answered true for a processor that has seen errors
C12_Witness ==
  /\ \E e \in ret : e.op = "should_transition_to_maintenance" /\ e.v = "True"
  /\ stats[1].error_count > 0
  /\ stats[1].emails_pending = pending_limit - 1
  /\ now - proc[1].mode_start_time = min_days * SecondsPerDay

\* C13 (as claimed): when a processor running in startup mode satisfies the
\* predicate, a status poll made 3600 seconds or more after the previous
\* transition check performs the check and leaves the processor in
\* maintenance mode.
C13_PollSwitches ==
  [][\A t \in Clients :
       (/\ ReturnsNow(t, "get_all_status")
        /\ proc[1].state = RUNNING_STARTUP
        /\ ShouldTransition(proc[1], stats[1], now)
        /\ now - last_transition_check >= transition_check_interval)
         => /\ last_transition_check' = now
            /\ proc'[1].mode = MAINTENANCE
            /\ proc'[1].state = RUNNING_MAINTENANCE]_vars

\* C14: process_manual_batch called on a processor whose state is not
\* RUNNING_STARTUP raises ValueError at once: the thread does not enter the
\* batch (no rule, no training folder, no inbox move) and the processor's
\* fields, consecutive_errors included, and its counters are what they were.
C14_BatchOnlyInStartup ==
  [][\A t \in Clients :
       (/\ thr[t].pc = "idle"
        /\ Target(t) # NoProc
        /\ proc[Target(t)].state # RUNNING_STARTUP
        /\ \/ ReturnsNow(t, "process_manual_batch")
           \/ thr'[t].pc \in {"batch_run", "batch_stats"})
         => /\ ReturnedNow(t, "process_manual_batch", "ValueError")
            /\ thr'[t].pc = "idle"
            /\ proc' = proc
            /\ stats' = stats]_vars

\* a batch was refused on a processor running in maintenance mode
C14_Witness ==
  /\ \E e \in ret : e.op = "process_manual_batch" /\ e.v = "ValueError"
  /\ proc[1].state = RUNNING_MAINTENANCE

\* ======================= inbox and training folders =======================
\* the uids of the messages, oldest first, and the sender addresses
UidOrder == <<"101", "102", "103", "104">>
Uids == {UidOrder[i] : i \in 1..NumMsgs}
Senders == {"s1", "s2"}

Range(q) == {q[i] : i \in DOMAIN q}

\* the first k uids of the messages with the positions S, newest first
RECURSIVE NewestFirst(_, _)
NewestFirst(S, k) ==
  IF S = {} \/ k = 0 THEN <<>>
  ELSE LET m == CHOOSE i \in S : \A j \in S : j <= i
       IN <<UidOrder[m]>> \o NewestFirst(S \ {m}, k - 1)

\* fetch_class(mb, folder, limit): mb.fetch(limit=limit, reverse=True)
Fetch(mb, folder, limit) ==
  NewestFirst({i \in 1..NumMsgs : mb[UidOrder[i]] = folder}, limit)

\* an IMAP command of the log
Cmd(c, folder, uids, arg, ok) ==
  [cmd |-> c, folder |-> folder, uids |-> uids, arg |-> arg, ok |-> ok]

\* the mailbox after mb.move(uids, dest) on the folder the uids were fetched
\* from
Moved(mb, folder, uids, dest) ==
  [u \in Uids |-> IF u \in Range(uids) /\ mb[u] = folder THEN dest ELSE mb[u]]

\* the mailbox after the messages S have gone to dest
MovedSet(mb, S, dest) == [u \in Uids |-> IF u \in S THEN dest ELSE mb[u]]

\* variant: the source label is removed whether or not the MOVE succeeded
GmailAwareMove_AlwaysClean(folder, uids, dest, source, ok) ==
  IF uids = <<>> THEN <<>>
  ELSE <<Cmd("MOVE", folder, uids, dest, ok)>> \o
       (IF source \notin {"none", "INBOX", "Inbox"}
          THEN [i \in 1..Len(uids) |->
                  Cmd("STORE", folder, <<uids[i]>>, source, TRUE)]
          ELSE <<>>)

\* gmail_aware_move(mailbox, uids, dest, source): the commands it issues when
\* mailbox.move succeeds (ok) or raises; remove_gmail_label stores
\* -X-GM-LABELS once per uid
GmailAwareMove(folder, uids, dest, source, ok) ==
  IF uids = <<>> THEN <<>>
  ELSE <<Cmd("MOVE", folder, uids, dest, ok)>> \o
       (IF ok /\ source \notin {"none", "INBOX", "Inbox"}
          THEN [i \in 1..Len(uids) |->
                  Cmd("STORE", folder, <<uids[i]>>, source, TRUE)]
          ELSE <<>>)

\* the move of one group by process_inbox / process_inbox_maint / process_folder:
\* the Gmail-aware move for a Gmail account, mb.move otherwise
GroupMove(folder, uids, dest, source, ok) ==
  IF account.gmail THEN GmailAwareMove(folder, uids, dest, source, ok)
  ELSE <<Cmd("MOVE", folder, uids, dest, ok)>>

\* the uids of q whose sender is in the collection L
OnList(q, L) == SelectSeq(q, LAMBDA u : sender[u] \in L)

\* the variables the mail processing leaves alone
mailFrame == <<svcVars, statVars, last_transition_check, ruleVars, storeVars>>

\* ---- process_inbox_batch -> process_inbox(account, "INBOX", limit) ----
\* no rule is active for the account and no message is older than a
\* retention setting.  After the three list comprehensions the name
\* vendorlist holds the uids of the vendor group.  purge_old, run when that
\* group is not empty and the retention setting is positive, selects the
\* approved_ads folder, so that the move of the pending group addresses
\* that folder: S are the messages there whose uids it names
ProcessInbox(S) ==
  LET fetched == Fetch(mbox, INBOX, BatchLimit)
      whitelisted == OnList(fetched, lists.white)
      blacklisted == OnList(fetched, lists.black)
      vendorlist == OnList(fetched, lists.vendor)
      pending == SelectSeq(fetched, LAMBDA u :
                   /\ sender[u] \notin lists.white
                   /\ sender[u] \notin lists.black
                   /\ sender[u] \notin Range(vendorlist))
      mb1 == Moved(Moved(Moved(mbox, INBOX, whitelisted, DestFolder.white),
                         INBOX, blacklisted, DestFolder.black),
                   INBOX, vendorlist, DestFolder.vendor)
      selected == IF vendorlist # <<>> /\ account.purge
                    THEN DestFolder.vendor ELSE INBOX
      there == {u \in Uids : mb1[u] = selected}
  IN /\ mbox # <<>>
     /\ IF selected = INBOX THEN S = Range(pending) \cap there
        ELSE S \subseteq there /\ Cardinality(S) <= Len(pending)
     /\ mbox' = MovedSet(mb1, S, PendingFolder)
     /\ imaplog' =
          GroupMove(INBOX, whitelisted, DestFolder.white, INBOX, TRUE) \o
          GroupMove(INBOX, blacklisted, DestFolder.black, INBOX, TRUE) \o
          GroupMove(INBOX, vendorlist, DestFolder.vendor, INBOX, TRUE) \o
          (IF pending # <<>>
             THEN GroupMove(selected, pending, PendingFolder, INBOX, TRUE)
             ELSE <<Cmd("MOVE", selected, pending, PendingFolder, TRUE)>>)
     /\ report' =
          [process |-> "inbox_batch",
           fetched |-> fetched,
           whitelisted |-> whitelisted,
           blacklisted |-> blacklisted,
           vendor |-> vendorlist,
           pending |-> pending,
           emails_processed |-> Len(fetched),
           categories |-> [whitelisted |-> Len(whitelisted),
                           blacklisted |-> Len(blacklisted),
                           vendor |-> Len(vendorlist),
                           pending |-> Len(pending)]]
     /\ UNCHANGED <<sender, lists, account, mailFrame>>

\* ---- process_inbox_maint(account, "INBOX", limit) ----
\* as process_inbox, without the move of the whitelisted group; the pending
\* group is moved with mb.move on every account
ProcessInboxMaint(S) ==
  LET fetched == Fetch(mbox, INBOX, BatchLimit)
      whitelisted == OnList(fetched, lists.white)
      blacklisted == OnList(fetched, lists.black)
      vendorlist == OnList(fetched, lists.vendor)
      pending == SelectSeq(fetched, LAMBDA u :
                   /\ sender[u] \notin lists.white
                   /\ sender[u] \notin lists.black
                   /\ sender[u] \notin Range(vendorlist))
      mb1 == Moved(Moved(mbox, INBOX, blacklisted, DestFolder.black),
                   INBOX, vendorlist, DestFolder.vendor)
      selected == IF vendorlist # <<>> /\ account.purge
                    THEN DestFolder.vendor ELSE INBOX
      there == {u \in Uids : mb1[u] = selected}
  IN /\ mbox # <<>>
     /\ IF selected = INBOX THEN S = Range(pending) \cap there
        ELSE S \subseteq there /\ Cardinality(S) <= Len(pending)
     /\ mbox' = MovedSet(mb1, S, PendingFolder)
     /\ imaplog' =
          GroupMove(INBOX, blacklisted, DestFolder.black, INBOX, TRUE) \o
          GroupMove(INBOX, vendorlist, DestFolder.vendor, INBOX, TRUE) \o
          <<Cmd("MOVE", selected, pending, PendingFolder, TRUE)>>
     /\ report' =
          [process |-> "inbox_maint",
           fetched |-> fetched,
           whitelisted |-> whitelisted,
           blacklisted |-> blacklisted,
           vendor |-> vendorlist,
           pending |-> pending,
           emails_processed |-> Len(fetched)]
     /\ UNCHANGED <<sender, lists, account, mailFrame>>

\* ---- process_folder(list l, account, training folder, destination) ----
\* the senders not yet on the list are added, then every message of the
\* folder is moved; ok: mailbox.move succeeds
ProcessFolder(l, ok) ==
  LET start == TrainingFolder[l]
      mail_list == Fetch(mbox, start, NumMsgs)
      new_list_entries == {sender[u] : u \in Range(mail_list)} \ lists[l]
  IN /\ mbox # <<>>
     /\ lists' = [lists EXCEPT ![l] = @ \cup new_list_entries]
     /\ mbox' = IF ok THEN Moved(mbox, start, mail_list, DestFolder[l])
                ELSE mbox
     /\ imaplog' = GroupMove(start, mail_list, DestFolder[l], start, ok)
     /\ report' = [process |-> "folder", list |-> l, fetched |-> mail_list,
                   new_entries |-> new_list_entries,
                   processed |-> Len(mail_list)]
     /\ UNCHANGED <<sender, account, mailFrame>>

\* the lists as a set of addresses per name, each address on one list at
\* most; the messages in the inbox or in a training folder
InitMail ==
  /\ SvcInit
  /\ StatInit
  /\ last_transition_check = 0
  /\ \E on \in [Senders -> ListNames \cup {"none"}] :
       lists = [l \in ListNames |-> {a \in Senders : on[a] = l}]
  /\ sender \in [Uids -> Senders]
  /\ mbox \in [Uids -> {INBOX} \cup {TrainingFolder[l] : l \in ListNames}]
  /\ account \in [gmail : BOOLEAN, purge : BOOLEAN]
  /\ imaplog = <<>>
  /\ report = NoReport
  /\ RuleIdle
  /\ StoreIdle

NextMail ==
  \/ \E S \in SUBSET Uids : ProcessInbox(S)
  \/ \E S \in SUBSET Uids : ProcessInboxMaint(S)
  \/ \E l \in ListNames, ok \in BOOLEAN : ProcessFolder(l, ok)

MailSpec == InitMail /\ [][NextMail]_vars

\* no address is on two of the three lists
DisjointLists ==
  /\ lists.white \cap lists.black = {}
  /\ lists.white \cap lists.vendor = {}
  /\ lists.black \cap lists.vendor = {}

\* the positions of the log q at which a MOVE names message u
MovesOf(q, u) == {i \in DOMAIN q : q[i].cmd = "MOVE" /\ u \in Range(q[i].uids)}

\* C15 (as claimed): with pairwise-disjoint lists a startup batch puts every
\* fetched message in exactly one of the groups whitelisted, blacklisted,
\* vendor, pending according to the list its sender is on, moves it exactly
\* once, to processed, junk, approved_ads or pending; pending holds exactly
\* the messages whose sender is on no list, and the returned category counts
\* are the sizes of the four groups.
C15_Classification ==
  [][(report'.process = "inbox_batch" /\ DisjointLists) =>
       LET f == Range(Fetch(mbox, INBOX, BatchLimit))
           W == {u \in f : sender[u] \in lists.white}
           B == {u \in f : sender[u] \in lists.black}
           V == {u \in f : sender[u] \in lists.vendor}
           P == f \ (W \cup B \cup V)
       IN /\ Range(report'.whitelisted) = W
          /\ Range(report'.blacklisted) = B
          /\ Range(report'.vendor) = V
          /\ Range(report'.pending) = P
          /\ report'.categories =
               [whitelisted |-> Cardinality(W), blacklisted |-> Cardinality(B),
                vendor |-> Cardinality(V), pending |-> Cardinality(P)]
          /\ \A u \in f :
               /\ Cardinality(MovesOf(imaplog', u)) = 1
               /\ mbox'[u] = IF u \in W THEN DestFolder.white
                             ELSE IF u \in B THEN DestFolder.black
                             ELSE IF u \in V THEN DestFolder.vendor
                             ELSE PendingFolder]_vars

\* C16 (as claimed): maintenance-mode inbox processing never moves a message
\* whose sender is on the whitelist: it stays in INBOX and no move of the
\* run names it.
C16_WhitelistStays ==
  [][report'.process = "inbox_maint" =>
       \A u \in Uids :
         (mbox[u] = INBOX /\ sender[u] \in lists.white)
           => /\ mbox'[u] = INBOX
              /\ MovesOf(imaplog', u) = {}]_vars

\* the positions of the log q at which the label of message u is removed
StoresOf(q, u) == {i \in DOMAIN q : q[i].cmd = "STORE" /\ q[i].uids = <<u>>}

\* C17: on a Gmail account the move of a training folder's messages issues
\* one MOVE of all the uids and then, only if that MOVE succeeded, removes
\* the training folder's label once per uid; no label of INBOX is ever
\* removed, every label removal follows a successful MOVE naming its uid,
\* and a non-Gmail account gets the MOVE alone.
C17_GmailMove ==
  [][/\ \A i \in DOMAIN imaplog' :
          imaplog'[i].cmd = "STORE" =>
            /\ account.gmail
            /\ imaplog'[i].arg \notin {"none", INBOX}
            /\ \E j \in 1..(i - 1) :
                 /\ imaplog'[j].cmd = "MOVE"
                 /\ imaplog'[j].ok
                 /\ imaplog'[i].uids[1] \in Range(imaplog'[j].uids)
            /\ StoresOf(imaplog', imaplog'[i].uids[1]) = {i}
     /\ report'.process = "folder" =>
          LET start == TrainingFolder[report'.list]
              uids == Fetch(mbox, start, NumMsgs)
              move == imaplog'[1]
          IN IF ~account.gmail
               THEN /\ Len(imaplog') = 1
                    /\ move.cmd = "MOVE" /\ move.uids = uids
               ELSE uids # <<>> =>
                    /\ move.cmd = "MOVE" /\ move.uids = uids
                    /\ \A i \in 2..Len(imaplog') : imaplog'[i].cmd = "STORE"
                    /\ \A u \in Range(uids) :
                         /\ Cardinality(StoresOf(imaplog', u))
                              = IF move.ok THEN 1 ELSE 0
                         /\ \A i \in StoresOf(imaplog', u) :
                              imaplog'[i].arg = start]_vars

\* a Gmail account: one MOVE of two messages, then two label removals
C17_Witness ==
  /\ account.gmail
  /\ report.process = "folder"
  /\ Len(imaplog) = 3
  /\ imaplog[1].cmd = "MOVE" /\ Len(imaplog[1].uids) = 2
  /\ imaplog[2].cmd = "STORE" /\ imaplog[3].cmd = "STORE"

\* ---------------------------------------------------------------------
\* The rules engine: rules.json, load_active_rules_for_account and the
\* execution of the active rules on the INBOX of an account
\* ---------------------------------------------------------------------

\* the accounts the rules are run for, and the account scopes a rule is
\* created with ("" is every account)
RuleAccounts == {"a1", "a2"}
RuleScopes == {"", "a1"}

\* the ids a new rule is given, in the order of their use
RuleIdOrder == <<"r1", "r2", "r3", "r4">>

\* the conditions, with their combinator, and the actions of the rules created
CondShapes ==
  { [conditions |-> <<>>, condition_logic |-> "AND"],
    [conditions |-> <<[type |-> "sender_exact", value |-> "s1"]>>,
     condition_logic |-> "AND"],
    [conditions |-> <<[type |-> "sender_exact", value |-> "s1"],
                      [type |-> "sender_exact", value |-> "s2"]>>,
     condition_logic |-> "OR"] }
ActShapes ==
  { <<>>,
    <<[type |-> "add_to_list", target |-> "white"]>>,
    <<[type |-> "add_to_list", target |-> "white"],
      [type |-> "move_to_folder", target |-> DestFolder.white]>> }

\* the id of the next rule of the file q
NewId(q) ==
  RuleIdOrder[CHOOSE i \in DOMAIN RuleIdOrder :
                /\ \A k \in DOMAIN q : q[k].id # RuleIdOrder[i]
                /\ \A j \in 1..(i - 1) : \E k \in DOMAIN q : q[k].id = RuleIdOrder[j]]

\* RulesEngine.load_rules: the EmailRule built from one record of rules.json;
\* account_email is not among the arguments and takes its default
LoadRule(d) ==
  [id |-> d.id, conditions |-> d.conditions, actions |-> d.actions,
   account_email |-> "", condition_logic |-> d.condition_logic,
   active |-> d.active, priority |-> d.priority]

LoadRules(file) == [i \in DOMAIN file |-> LoadRule(file[i])]

\* RulesEngine.save_rules: asdict of every rule, all fields
SaveRules(rs) ==
  [i \in DOMAIN rs |->
     [id |-> rs[i].id, conditions |-> rs[i].conditions, actions |-> rs[i].actions,
      account_email |-> rs[i].account_email,
      condition_logic |-> rs[i].condition_logic,
      active |-> rs[i].active, priority |-> rs[i].priority]]

\* variant: the rules sorted by priority descending
RECURSIVE SortByPriority_Descending(_)
SortByPriority_Descending(q) ==
  IF q = <<>> THEN <<>>
  ELSE LET s == SortByPriority_Descending(SubSeq(q, 1, Len(q) - 1))
           r == q[Len(q)]
           k == Cardinality({i \in DOMAIN s : s[i].priority >= r.priority})
       IN SubSeq(s, 1, k) \o <<r>> \o SubSeq(s, k + 1, Len(s))

\* sorted(rules, key=priority) and rules.sort(key=priority): the stable sort
\* by priority ascending
RECURSIVE SortByPriority(_)
SortByPriority(q) ==
  IF q = <<>> THEN <<>>
  ELSE LET s == SortByPriority(SubSeq(q, 1, Len(q) - 1))
           r == q[Len(q)]
           k == Cardinality({i \in DOMAIN s : s[i].priority <= r.priority})
       IN SubSeq(s, 1, k) \o <<r>> \o SubSeq(s, k + 1, Len(s))

\* RulesEngine.get_all_rules
GetAllRules(rs) == SortByPriority(rs)

\* load_active_rules_for_account: a RulesEngine built from rules.json, its
\* rules by priority, those active and of this account or of every account
LoadActiveRulesForAccount(file, account_email) ==
  SelectSeq(GetAllRules(LoadRules(file)),
            LAMBDA rule : /\ rule.active
                          /\ (rule.account_email = account_email
                              \/ rule.account_email = ""))

\* RuleCondition.matches on the message u
ConditionMatches(c, u) == c.type = "sender_exact" /\ sender[u] = c.value

\* EmailRule.matches
Matches(rule, u) ==
  IF ~rule.active \/ rule.conditions = <<>> THEN FALSE
  ELSE IF rule.condition_logic = "OR"
    THEN \E i \in DOMAIN rule.conditions : ConditionMatches(rule.conditions[i], u)
    ELSE \A i \in DOMAIN rule.conditions : ConditionMatches(rule.conditions[i], u)

\* EmailRule._execute_action: action k of the rule on the message u
ExecuteAction(st, rule, k, u) ==
  LET a == rule.actions[k]
      e == [rule |-> rule.id, uid |-> u, action |-> k, type |-> a.type]
  IN [st EXCEPT
        !.mb = IF a.type = "move_to_folder"
                 THEN Moved(st.mb, INBOX, <<u>>, a.target) ELSE @,
        !.lists = IF a.type = "add_to_list"
                    THEN [@ EXCEPT ![a.target] = @ \cup {sender[u]}] ELSE @,
        !.log = Append(@, e)]

\* the actions k.. of the rule on the message u, in the order of the list
RECURSIVE ExecuteActions(_, _, _, _)
ExecuteActions(st, rule, k, u) ==
  IF k > Len(rule.actions) THEN st
  ELSE ExecuteActions(ExecuteAction(st, rule, k, u), rule, k + 1, u)

\* the loop of EmailRule.process_emails over the messages i.. of mail_list
RECURSIVE ProcessMail(_, _, _, _)
ProcessMail(st, rule, mail_list, i) ==
  IF i > Len(mail_list) THEN st
  ELSE IF Matches(rule, mail_list[i])
    THEN ProcessMail([ExecuteActions(st, rule, 1, mail_list[i])
                        EXCEPT !.processed_count = @ + 1],
                     rule, mail_list, i + 1)
    ELSE ProcessMail(st, rule, mail_list, i + 1)

\* EmailRule.process_emails(account, "INBOX"): every message of the folder at
\* the time of the call
ProcessEmails(st, rule) ==
  LET fin == ProcessMail([st EXCEPT !.processed_count = 0], rule,
                         Fetch(st.mb, INBOX, NumMsgs), 1)
  IN [fin EXCEPT !.processed = Append(@, fin.processed_count)]

\* the loop over the active rules i..
RECURSIVE RunRules(_, _, _)
RunRules(st, active_rules, i) ==
  IF i > Len(active_rules) THEN st
  ELSE RunRules(ProcessEmails(st, active_rules[i]), active_rules, i + 1)

\* the variables the rules engine leaves alone
ruleFrame == <<svcVars, statVars, last_transition_check, storeVars>>

\* RulesEngine.add_rule on an engine built from rules.json (one is built for
\* every request): the rule is appended, the list sorted and saved
AddRule(r) ==
  /\ rule_report = NoRun
  /\ Len(rules_file) < MaxRules
  /\ rules_file' = SaveRules(SortByPriority(
                     Append(LoadRules(rules_file),
                            [r EXCEPT !.id = NewId(rules_file)])))
  /\ UNCHANGED <<runlog, rule_report, mailVars, ruleFrame>>

\* RulesEngine.delete_rule on an engine built from rules.json
DeleteRule(id) ==
  /\ rule_report = NoRun
  /\ \E i \in DOMAIN rules_file : rules_file[i].id = id
  /\ rules_file' = SaveRules(SelectSeq(LoadRules(rules_file),
                                       LAMBDA rule : rule.id # id))
  /\ UNCHANGED <<runlog, rule_report, mailVars, ruleFrame>>

\* process_rules_with_retention / EmailProcessor._execute_rules for the
\* account: the active rules of the account, each run on the INBOX
ExecuteRules(account_email) ==
  LET active_rules == LoadActiveRulesForAccount(rules_file, account_email)
      fin == RunRules([mb |-> mbox, lists |-> lists, log |-> <<>>,
                       processed |-> <<>>, processed_count |-> 0],
                      active_rules, 1)
  IN /\ rules_file # <<>>
     /\ mbox' = fin.mb
     /\ lists' = fin.lists
     /\ runlog' = fin.log
     /\ rule_report' = [account |-> account_email,
                        active_rules |-> active_rules,
                        processed |-> fin.processed]
     /\ UNCHANGED <<rules_file, sender, account, imaplog, report, ruleFrame>>

\* the rules given to add_rule
NewRules ==
  {[id |-> "new", conditions |-> c.conditions, actions |-> a,
    account_email |-> e, condition_logic |-> c.condition_logic,
    active |-> b, priority |-> p] :
     c \in CondShapes, a \in ActShapes, e \in RuleScopes, b \in BOOLEAN,
     p \in 1..MaxPriority}

InitRules ==
  /\ SvcInit
  /\ StatInit
  /\ last_transition_check = 0
  /\ sender \in [Uids -> Senders]
  /\ mbox = [u \in Uids |-> INBOX]
  /\ lists = [l \in ListNames |-> {}]
  /\ account = [gmail |-> FALSE, purge |-> FALSE]
  /\ imaplog = <<>>
  /\ report = NoReport
  /\ RuleIdle
  /\ StoreIdle

NextRules ==
  \/ \E r \in NewRules : AddRule(r)
  \/ \E id \in Range(RuleIdOrder) : DeleteRule(id)
  \/ \E e \in RuleAccounts : ExecuteRules(e)

RulesSpec == InitRules /\ [][NextRules]_vars

\* the record of rules.json with this id
RuleById(id) == rules_file[CHOOSE i \in DOMAIN rules_file : rules_file[i].id = id]

\* C18: of the actions a run of the rules executed on one message, those of
\* a rule of lower priority value come before those of a rule of higher
\* priority value, and the actions of one rule on the message are all its
\* actions, in the order of its list.
C18_PriorityOrder ==
  rule_report # NoRun =>
    \A i \in DOMAIN runlog, j \in DOMAIN runlog :
      LET a == runlog[i]
          b == runlog[j]
      IN /\ (a.uid = b.uid /\ RuleById(a.rule).priority < RuleById(b.rule).priority)
              => i < j
         /\ (a.uid = b.uid /\ a.rule = b.rule /\ a.action < b.action) => i < j
         /\ a.action \in DOMAIN RuleById(a.rule).actions
         /\ a.type = RuleById(a.rule).actions[a.action].type
         /\ \A k \in DOMAIN RuleById(a.rule).actions :
              \E m \in DOMAIN runlog :
                /\ runlog[m].rule = a.rule
                /\ runlog[m].uid = a.uid
                /\ runlog[m].action = k

\* two rules of different priority acted on one message, one of them with
\* two actions
C18_Witness ==
  /\ rule_report # NoRun
  /\ \E i \in DOMAIN runlog, j \in DOMAIN runlog :
       /\ runlog[i].uid = runlog[j].uid
       /\ RuleById(runlog[i].rule).priority < RuleById(runlog[j].rule).priority
       /\ i < j
       /\ Len(RuleById(runlog[j].rule).actions) = 2

\* C19 (as claimed): a rule without conditions, a rule without actions and an
\* inactive rule never match and never run: a run of the rules executes no
\* action for it and counts no message as processed by it.
C19_EmptyRuleNeverRuns ==
  rule_report # NoRun =>
    \A i \in DOMAIN rules_file :
      LET r == rules_file[i]
      IN (r.conditions = <<>> \/ r.actions = <<>> \/ ~r.active) =>
           /\ \A u \in Uids : ~Matches(LoadRule(r), u)
           /\ \A m \in DOMAIN runlog : runlog[m].rule # r.id
           /\ \A k \in DOMAIN rule_report.active_rules :
                rule_report.active_rules[k].id = r.id
                  => rule_report.processed[k] = 0

\* C20 (as claimed): the rules run for an account are exactly the active
\* rules of rules.json whose account_email is that account or empty, by
\* priority; no action is executed for a rule of another account.
C20_AccountScope ==
  rule_report # NoRun =>
    /\ [k \in DOMAIN rule_report.active_rules |-> rule_report.active_rules[k].id]
         = LET own == SelectSeq(SortByPriority(rules_file),
                        LAMBDA r : /\ r.active
                                   /\ r.account_email \in {rule_report.account, ""})
           IN [k \in DOMAIN own |-> own[k].id]
    /\ \A m \in DOMAIN runlog :
         RuleById(runlog[m].rule).account_email \in {rule_report.account, ""}

\* ---------------------------------------------------------------------
\* A sender-list file: open_read, new_entries, remove_entry and their
\* callers, run by threads that share the file
\* ---------------------------------------------------------------------

listFrame ==
  <<svcVars, statVars, last_transition_check, mailVars, ruleVars, fileVars,
    retVars, extVars>>

\* the elements of a set in the order a loop over it visits them
RECURSIVE SetToSeq(_)
SetToSeq(S) ==
  IF S = {} THEN <<>>
  ELSE LET a == CHOOSE x \in S : TRUE IN <<a>> \o SetToSeq(S \ {a})

\* remove_entry: the lines kept
Without(lines, item) == SelectSeq(lines, LAMBDA x : x # item)

\* the file after a buffer is written from its start and the file closed
WrittenOver(old, new) == new \o SubSeq(old, Len(new) + 1, Len(old))

\* process_folder (the senders S of the training folder) and api_add_entry
\* (one address): open_read, then the addresses not found in what was read
ReadForAdd(w, S) ==
  /\ lw[w].pc = "idle"
  /\ lw' = [lw EXCEPT ![w] = [pc |-> "append",
                              lines |-> SetToSeq(S \ Range(lfile)),
                              item |-> "none"]]
  /\ UNCHANGED <<lfile, lread, listFrame>>

\* new_entries, or the append of api_add_entry: the addresses are appended
AppendNew(w) ==
  /\ lw[w].pc = "append"
  /\ Len(lfile) + Len(lw[w].lines) <= MaxLines
  /\ lfile' = lfile \o lw[w].lines
  /\ lw' = [lw EXCEPT ![w] = IdleWriter]
  /\ UNCHANGED <<lread, listFrame>>

\* the add_to_list action of a rule: new_entries(target, [sender])
RuleAddToList(a) ==
  /\ Len(lfile) < MaxLines
  /\ lfile' = Append(lfile, a)
  /\ UNCHANGED <<lw, lread, listFrame>>

\* remove_entry: the lines are read
RemoveRead(w, a) ==
  /\ lw[w].pc = "idle"
  /\ lw' = [lw EXCEPT ![w] = [pc |-> "read", lines |-> lfile, item |-> a]]
  /\ UNCHANGED <<lfile, lread, listFrame>>

\* remove_entry: open(file, "w") empties the file
RemoveOpen(w) ==
  /\ lw[w].pc = "read"
  /\ lfile' = <<>>
  /\ lw' = [lw EXCEPT ![w].pc = "opened"]
  /\ UNCHANGED <<lread, listFrame>>

\* remove_entry: the kept lines reach the file when it is closed
RemoveClose(w) ==
  /\ lw[w].pc = "opened"
  /\ lfile' = WrittenOver(lfile, Without(lw[w].lines, lw[w].item))
  /\ lw' = [lw EXCEPT ![w] = IdleWriter]
  /\ UNCHANGED <<lread, listFrame>>

\* open_read by a processor or a request
OpenRead ==
  /\ lread' = lfile
  /\ UNCHANGED <<lfile, lw, listFrame>>

InitList ==
  /\ SvcInit
  /\ ExtIdle
  /\ StatInit
  /\ last_transition_check = 0
  /\ MailIdle
  /\ RuleIdle
  /\ FileIdle
  /\ RetIdle
  /\ lfile \in {<<>>, <<"s1">>, <<"s1", "s2">>}
  /\ lw = [w \in ListWriters |-> IdleWriter]
  /\ lread = NotRead

NextList ==
  \/ \E w \in ListWriters, S \in SUBSET Senders : ReadForAdd(w, S)
  \/ \E w \in ListWriters : AppendNew(w)
  \/ \E a \in Senders : RuleAddToList(a)
  \/ \E w \in ListWriters, a \in Senders : RemoveRead(w, a)
  \/ \E w \in ListWriters : RemoveOpen(w)
  \/ \E w \in ListWriters : RemoveClose(w)
  \/ OpenRead

ListSpec == InitList /\ [][NextList]_vars

\* C21 (as claimed): what open_read returns holds every address at most
\* once, after any additions by training folders, rules and list requests.
C21_ListUnique ==
  \A i \in DOMAIN lread, j \in DOMAIN lread : lread[i] = lread[j] => i = j

\* C23 (as claimed): a read of the list while a remove_entry is under way
\* returns a complete list, the one before the removal or the one after it,
\* never an emptied or truncated one: every address the removal keeps is in
\* what the read returns.
C23_ListReadComplete ==
  [][lread' # lread =>
       \A w \in ListWriters :
         lw[w].pc \in {"read", "opened"} =>
           Range(Without(lw[w].lines, lw[w].item)) \subseteq Range(lread')]_vars

\* ---------------------------------------------------------------------
\* rules.json and retention_policies.json: save_rules / save_policies
\* against load_rules / load_policies
\* ---------------------------------------------------------------------

saveFrame ==
  <<svcVars, statVars, last_transition_check, mailVars, ruleVars, listVars,
    retVars, extVars>>

\* the bytes of version v of a document, in the order they are written
Doc(v) == [i \in 1..DocChunks |-> v]

\* variant: the document is written straight into the file it replaces
SavePath_InPlace(w, file) == file

\* the file json.dump writes to: the mkstemp file of the saver
SavePath(w, file) == TempFile[w]

\* tempfile.mkstemp and os.fdopen(temp_fd, 'w'): an empty file
SaveBegin(w, file, v) ==
  /\ fw[w].pc = "idle"
  /\ fs' = [fs EXCEPT ![SavePath(w, file)] = <<>>]
  /\ fw' = [fw EXCEPT ![w] = [pc |-> "writing", file |-> file, doc |-> v]]
  /\ UNCHANGED <<seen, saveFrame>>

\* json.dump: the next part of the document reaches the file
SaveWrite(w) ==
  LET path == SavePath(w, fw[w].file)
  IN /\ fw[w].pc = "writing"
     /\ Len(fs[path]) < DocChunks
     /\ fs' = [fs EXCEPT ![path] = Append(@, fw[w].doc)]
     /\ UNCHANGED <<fw, seen, saveFrame>>

\* os.rename(temp_file, target) after the file is closed
SaveRename(w) ==
  LET path == SavePath(w, fw[w].file)
  IN /\ fw[w].pc = "writing"
     /\ Len(fs[path]) = DocChunks
     /\ fs' = [f \in FileNames |->
                 IF f = fw[w].file THEN fs[path]
                 ELSE IF f = path THEN NoFile ELSE fs[f]]
     /\ fw' = [fw EXCEPT ![w] = IdleSaver]
     /\ UNCHANGED <<seen, saveFrame>>

\* load_rules / load_policies: json.load of the file
LoadFile(file) ==
  /\ seen' = fs[file]
  /\ UNCHANGED <<fs, fw, saveFrame>>

InitSave ==
  /\ SvcInit
  /\ ExtIdle
  /\ StatInit
  /\ last_transition_check = 0
  /\ MailIdle
  /\ RuleIdle
  /\ ListIdle
  /\ RetIdle
  /\ fs = [f \in FileNames |-> IF f \in ConfigFiles THEN Doc(0) ELSE NoFile]
  /\ fw = [w \in Savers |-> IdleSaver]
  /\ seen = NotRead

NextSave ==
  \/ \E w \in Savers, file \in ConfigFiles, v \in 1..MaxVersion :
       SaveBegin(w, file, v)
  \/ \E w \in Savers : SaveWrite(w)
  \/ \E w \in Savers : SaveRename(w)
  \/ \E file \in ConfigFiles : LoadFile(file)

SaveSpec == InitSave /\ [][NextSave]_vars

\* C22: what a load of rules.json or retention_policies.json gets is a whole
\* document, the one of before a save or the one it wrote, whatever savers
\* are at work.
C22_AtomicSave ==
  seen # NotRead => \E v \in 0..MaxVersion : seen = Doc(v)

\* a load got a saved document while a saver had written part of the next
C22_Witness ==
  /\ \E v \in 1..MaxVersion : seen = Doc(v)
  /\ \E w \in Savers :
       /\ fw[w].pc = "writing"
       /\ Len(fs[TempFile[w]]) \in 1..(DocChunks - 1)

\* ---------------------------------------------------------------------
\* The retention policy store: RetentionPolicyManager built from
\* retention_policies.json for each request, its create / update / delete
\* operations, and the policies made from the rules
\* ---------------------------------------------------------------------

policyFrame ==
  <<svcVars, statVars, last_transition_check, mailVars, listVars, fileVars,
    extVars>>

\* retention_policies.json does not exist
NoStore == [saved |-> FALSE, folder_policies |-> <<>>, rule_policies |-> <<>>]

\* RetentionPolicy(...): a field that is None or empty is ""
NewPolicy(id, folder_pattern, rule_id, retention_days, trash_retention_days) ==
  [id |-> id, folder_pattern |-> folder_pattern, rule_id |-> rule_id,
   retention_days |-> retention_days,
   trash_retention_days |-> trash_retention_days, active |-> TRUE,
   emails_moved_to_trash |-> 0, last_applied |-> NoTime]

\* variant: no validation of the two scope fields
PostInitOK_Any(p) == p.retention_days >= 1 /\ p.trash_retention_days >= 1

\* RetentionPolicy.__post_init__ does not raise
PostInitOK(p) ==
  /\ p.retention_days >= 1
  /\ p.trash_retention_days >= 1
  /\ ~(p.folder_pattern = "" /\ p.rule_id = "")
  /\ ~(p.folder_pattern # "" /\ p.rule_id # "")

\* create_default_folder_policies
DefaultPolicies ==
  [saved |-> TRUE,
   folder_policies |->
     <<NewPolicy(<<"default", "approved_ads", 0>>, "approved_ads", "", 30, 7),
       NewPolicy(<<"default", "junk", 0>>, "junk", "", 7, 7),
       NewPolicy(<<"default", "processed", 0>>, "processed", "", 90, 7)>>,
   rule_policies |-> <<>>]

\* RetentionSettings.get_all_policies
GetAllPolicies(st) == st.folder_policies \o st.rule_policies

\* load_policies: the defaults when the file is missing or a policy of it
\* is refused by RetentionPolicy.from_dict
LoadPolicies(file) ==
  IF ~file.saved THEN DefaultPolicies
  ELSE IF \A i \in DOMAIN GetAllPolicies(file) : PostInitOK(GetAllPolicies(file)[i])
    THEN file
    ELSE DefaultPolicies

\* d[id] = p on a dict kept in insertion order
DictSet(d, p) ==
  IF \E i \in DOMAIN d : d[i].id = p.id
    THEN [i \in DOMAIN d |-> IF d[i].id = p.id THEN p ELSE d[i]]
    ELSE Append(d, p)

\* RetentionSettings.add_policy
AddPolicy(st, p) ==
  IF p.folder_pattern # ""
    THEN [st EXCEPT !.folder_policies = DictSet(@, p)]
    ELSE [st EXCEPT !.rule_policies = DictSet(@, p)]

\* RetentionSettings.remove_policy
RemovePolicy(st, id) ==
  IF \E i \in DOMAIN st.folder_policies : st.folder_policies[i].id = id
    THEN [st EXCEPT !.folder_policies = SelectSeq(@, LAMBDA p : p.id # id)]
    ELSE [st EXCEPT !.rule_policies = SelectSeq(@, LAMBDA p : p.id # id)]

\* RetentionSettings.get_policy_by_rule_id: the policies it can return
GetPolicyByRuleId(st, rule_id) ==
  {i \in DOMAIN st.rule_policies : st.rule_policies[i].rule_id = rule_id}

\* the patterns of the requests, the rules their forms offer, and the ids
FolderPatterns == {"", "junk"}
PolicyRuleIds == {"r1", "r2"}
RuleChoices ==
  {GetAllRules(LoadRules(rules_file))[k].id :
     k \in DOMAIN GetAllRules(LoadRules(rules_file))}
PolicyId(kind, key, t) == <<kind, key, t>>
PolicyIds(st) ==
  {GetAllPolicies(st)[i].id : i \in DOMAIN GetAllPolicies(st)}

\* create_folder_policy / create_rule_policy: the store after the call; an
\* exception of the period test or of the constructor leaves it as loaded
Created(st, p) ==
  IF p.retention_days < min_retention_days \/ ~PostInitOK(p) THEN st
  ELSE AddPolicy(st, p)

\* the create-folder-policy request
CreateFolderPolicy(folder_pattern, retention_days, t) ==
  LET st == LoadPolicies(settings)
      p == NewPolicy(PolicyId("folder", folder_pattern, t), folder_pattern, "",
                     retention_days, 7)
  IN /\ Len(GetAllPolicies(st)) < MaxPolicies
     /\ Created(st, p) # st
     /\ settings' = Created(st, p)
     /\ UNCHANGED <<rmsgs, today, audit, rrun, ruleVars, policyFrame>>

\* the create-rule-policy request
CreateRulePolicy(rule_id, retention_days, t) ==
  LET st == LoadPolicies(settings)
      p == NewPolicy(PolicyId("rule", rule_id, t), "", rule_id,
                     retention_days, 7)
  IN /\ Len(GetAllPolicies(st)) < MaxPolicies
     /\ Created(st, p) # st
     /\ settings' = Created(st, p)
     /\ UNCHANGED <<rmsgs, today, audit, rrun, ruleVars, policyFrame>>

\* update_policy as edit_policy calls it: the form of a folder policy gives
\* folder_pattern, the form of a rule policy gives rule_id, both required
Updated(p, key, retention_days, active) ==
  IF p.folder_pattern # ""
    THEN [p EXCEPT !.folder_pattern = key, !.retention_days = retention_days,
                   !.active = active]
    ELSE [p EXCEPT !.rule_id = key, !.retention_days = retention_days,
                   !.active = active]

EditPolicy(id, key, retention_days, active) ==
  LET st == LoadPolicies(settings)
      edited(q) == [i \in DOMAIN q |->
                   IF q[i].id = id THEN Updated(q[i], key, retention_days, active)
                   ELSE q[i]]
  IN /\ id \in PolicyIds(st)
     /\ key # ""
     /\ retention_days >= min_retention_days
     /\ settings' = [saved |-> TRUE,
                     folder_policies |-> edited(st.folder_policies),
                     rule_policies |-> edited(st.rule_policies)]
     /\ UNCHANGED <<rmsgs, today, audit, rrun, ruleVars, policyFrame>>

\* delete_policy
DeletePolicy(id) ==
  LET st == LoadPolicies(settings)
  IN /\ id \in PolicyIds(st)
     /\ settings' = RemovePolicy(st, id)
     /\ UNCHANGED <<rmsgs, today, audit, rrun, ruleVars, policyFrame>>

\* RuleAction.has_retention_settings, EmailRule.has_retention_actions and
\* EmailRule.get_retention_settings: the retention_days of the first action
\* with retention settings, 0 for None
HasRetention(a) == a.type = "set_retention" \/ "retention_days" \in DOMAIN a
RetentionDaysOf(a) == IF "retention_days" \in DOMAIN a THEN a.retention_days ELSE 0
HasRetentionActions(rule) ==
  \E k \in DOMAIN rule.actions : HasRetention(rule.actions[k])
GetRetentionDays(rule) ==
  RetentionDaysOf(rule.actions[CHOOSE k \in DOMAIN rule.actions :
                     /\ HasRetention(rule.actions[k])
                     /\ \A j \in 1..(k - 1) : ~HasRetention(rule.actions[j])])

\* the loop of create_retention_policies_from_rules over the rules i.. at
\* the second t
RECURSIVE PoliciesFromRules(_, _, _, _)
PoliciesFromRules(st, rules, i, t) ==
  IF i > Len(rules) THEN st
  ELSE LET rule == rules[i]
           p == NewPolicy(PolicyId("rule", rule.id, t), "", rule.id,
                          GetRetentionDays(rule), 7)
       IN IF /\ HasRetentionActions(rule)
             /\ GetPolicyByRuleId(st, rule.id) = {}
             /\ GetRetentionDays(rule) # 0
            THEN PoliciesFromRules(Created(st, p), rules, i + 1, t)
            ELSE PoliciesFromRules(st, rules, i + 1, t)

\* create_retention_policies_from_rules of an engine built from rules.json,
\* on a manager built from retention_policies.json
CreateRetentionPoliciesFromRules(file, t) ==
  PoliciesFromRules(LoadPolicies(file), GetAllRules(LoadRules(rules_file)), 1, t)

EnsurePolicies(t) ==
  /\ rules_file # <<>>
  /\ Len(GetAllPolicies(CreateRetentionPoliciesFromRules(settings, t))) <= MaxPolicies
  /\ settings' = CreateRetentionPoliciesFromRules(settings, t)
  /\ rrun' = [kind |-> "ensure", t |-> t]
  /\ UNCHANGED <<rmsgs, today, audit, ruleVars, policyFrame>>

\* the actions of the rules with retention settings
RetentionActShapes ==
  { <<[type |-> "add_to_list", target |-> "white"]>>,
    <<[type |-> "set_retention", target |-> ""]>>,
    <<[type |-> "add_to_list", target |-> "white"],
      [type |-> "set_retention", target |-> "", retention_days |-> 1]>>,
    <<[type |-> "move_to_folder", target |-> "junk", retention_days |-> 1]>> }

RetentionRule(id, a) ==
  [id |-> id, conditions |-> <<[type |-> "sender_exact", value |-> "s1"]>>,
   actions |-> a, account_email |-> "", condition_logic |-> "AND",
   active |-> TRUE, priority |-> 1]

InitPolicy ==
  /\ SvcInit
  /\ ExtIdle
  /\ StatInit
  /\ last_transition_check = 0
  /\ MailIdle
  /\ ListIdle
  /\ FileIdle
  /\ \E a \in RetentionActShapes :
       rules_file \in {<<RetentionRule("r1", a)>>,
                       <<RetentionRule("r1", a), RetentionRule("r2", a)>>}
  /\ runlog = <<>>
  /\ rule_report = NoRun
  /\ settings = NoStore
  /\ rmsgs = <<>>
  /\ today = 0
  /\ audit = <<>>
  /\ rrun = NoRetRun

NextPolicy ==
  \/ \E f \in FolderPatterns, d \in 0..MaxRetention, t \in 0..MaxStamp :
       CreateFolderPolicy(f, d, t)
  \/ \E r \in RuleChoices, d \in 0..MaxRetention, t \in 0..MaxStamp :
       CreateRulePolicy(r, d, t)
  \/ \E id \in PolicyIds(LoadPolicies(settings)),
        key \in FolderPatterns \cup RuleChoices,
        d \in 0..MaxRetention, b \in BOOLEAN :
       EditPolicy(id, key, d, b)
  \/ \E id \in PolicyIds(LoadPolicies(settings)) : DeletePolicy(id)
  \/ \E t \in 0..MaxStamp : EnsurePolicies(t)

PolicySpec == InitPolicy /\ [][NextPolicy]_vars

\* exactly one of folder_pattern and rule_id is set
ExactlyOneScope(p) == (p.folder_pattern # "") # (p.rule_id # "")

PoliciesOfRule(st, rule_id) ==
  {i \in DOMAIN st.rule_policies : st.rule_policies[i].rule_id = rule_id}

\* C30: after the policies were made from the rules, making them again, at
\* any second, leaves the store as it is; a run adds a policy only for a
\* rule id that has none, and one at most.
C30_EnsureIdempotent ==
  [][(\E t \in 0..MaxStamp : EnsurePolicies(t)) =>
       /\ \A t \in 0..MaxStamp :
            CreateRetentionPoliciesFromRules(settings', t) = settings'
       /\ \A r \in PolicyRuleIds :
            LET before == Cardinality(PoliciesOfRule(LoadPolicies(settings), r))
                after == Cardinality(PoliciesOfRule(settings', r))
            IN after <= IF before = 0 THEN 1 ELSE before]_vars

\* ---------------------------------------------------------------------
\* Retention runs: execute_retention_stage_1, execute_retention_stage_2,
\* execute_policies_for_account and get_retention_preview on an account
\* whose mail is moved with the plain IMAP MOVE
\* ---------------------------------------------------------------------

retFrame ==
  <<svcVars, statVars, last_transition_check, mailVars, ruleVars, listVars,
    fileVars, extVars>>

\* policy=None of the trash cleanup's audit calls
NoPolicy == [id |-> "None"]

\* the uids of the messages of a folder, in the order of the fetch
UidsIn(msgs, folder) ==
  SelectSeq([u \in 1..Len(msgs) |-> u], LAMBDA u : msgs[u].folder = folder)

\* find_emails_older_than: email_date < now - days
FindEmailsOlderThan(msgs, folder, days, day) ==
  SelectSeq(UidsIn(msgs, folder), LAMBDA u : msgs[u].date < day - days)

\* variant: no limit on the messages of one operation
Capped_All(old_uids, max_emails) == old_uids

\* old_uids[:max_emails] when len(old_uids) > max_emails
Capped(old_uids, max_emails) ==
  IF Len(old_uids) > max_emails THEN SubSeq(old_uids, 1, max_emails)
  ELSE old_uids

\* variant: the move is made in a dry run as well
ToMove_Always(uids, dry_run) == uids

\* the uids handed to move_to_trash: none when dry_run
ToMove(uids, dry_run) == IF dry_run THEN <<>> ELSE uids

\* mailbox.move(message_uids, trash_folder) on day day; moved is the day a
\* message went to the trash, which the server does not keep
MoveToTrash(msgs, uids, day) ==
  [u \in DOMAIN msgs |->
     IF u \in Range(uids) THEN [msgs[u] EXCEPT !.folder = "trash", !.moved = day]
     ELSE msgs[u]]

\* permanent_delete_from_trash(days_old): mailbox.delete of the trash
\* messages with email.date < now - days_old
PermanentDeleteFromTrash(msgs, days_old, day) ==
  [u \in DOMAIN msgs |->
     IF u \in Range(FindEmailsOlderThan(msgs, "trash", days_old, day))
       THEN [msgs[u] EXCEPT !.folder = "gone"]
       ELSE msgs[u]]

\* log_retention_operation: policy.id[:8] raises when policy is None,
\* before the entry is written
LogRetentionOperation(log, stage, policy, messages_affected, success, dry_run) ==
  IF policy = NoPolicy THEN [raised |-> TRUE, log |-> log]
  ELSE [raised |-> FALSE,
        log |-> Append(log, [stage |-> stage, policy_id |-> policy.id,
                             messages_affected |-> messages_affected,
                             success |-> success, dry_run |-> dry_run])]

\* RetentionResult
Result(stage, policy_id, success, emails_processed, emails_affected, dry_run) ==
  [stage |-> stage, policy_id |-> policy_id, success |-> success,
   emails_processed |-> emails_processed,
   emails_affected |-> emails_affected, dry_run |-> dry_run]

\* what one operation of a run did: the candidates it found, the uids it
\* moved or deleted, the candidates left in the folder right after it
Op(stage, policy_id, failed, found, moved, rest) ==
  [stage |-> stage, policy_id |-> policy_id, failed |-> failed,
   found |-> found, moved |-> moved, rest |-> rest]

\* the policy of an id in the manager's settings
PolicyOf(st, id) ==
  GetAllPolicies(st)[CHOOSE i \in DOMAIN GetAllPolicies(st) :
                       GetAllPolicies(st)[i].id = id]

\* policy.emails_moved_to_trash += moved_count; policy.mark_applied();
\* save_policies
Applied(st, id, moved_count, day) ==
  [st EXCEPT !.folder_policies =
     [i \in DOMAIN @ |->
        IF @[i].id = id
          THEN [@[i] EXCEPT !.emails_moved_to_trash = @ + moved_count,
                            !.last_applied = day]
          ELSE @[i]]]

\* execute_retention_stage_1 for the policy id, as execute_policies_for_account
\* calls it: acc is the mail, the settings, the audit log, the operations
\* and the results so far; fails says that the login or the move raises
ExecuteRetentionStage1(acc, id, dry_run, fails, day) ==
  LET policy == PolicyOf(acc.st, id)
      folder == policy.folder_pattern
      found == FindEmailsOlderThan(acc.msgs, folder, policy.retention_days, day)
      old_uids == Capped(found, acc.st.global_settings.max_emails_per_operation)
      moved == ToMove(old_uids, dry_run)
      msgs2 == MoveToTrash(acc.msgs, moved, day)
      failure == LogRetentionOperation(acc.log, "stage_1", policy, 0, FALSE, dry_run)
      success == LogRetentionOperation(acc.log, "stage_1", policy,
                                       Len(old_uids), TRUE, dry_run)
  IN IF fails
       THEN [acc EXCEPT
               !.log = failure.log,
               !.ops = Append(@, Op("stage_1", id, TRUE, <<>>, <<>>, <<>>)),
               !.results = IF dry_run
                             THEN Append(@, Result("stage_1", id, FALSE, 0, 0, dry_run))
                             ELSE @]
     ELSE IF found = <<>>
       THEN [acc EXCEPT
               !.ops = Append(@, Op("stage_1", id, FALSE, <<>>, <<>>, <<>>)),
               !.results = Append(@, Result("stage_1", id, TRUE, 0, 0, dry_run))]
     ELSE [acc EXCEPT
             !.msgs = msgs2,
             !.st = IF dry_run THEN @ ELSE Applied(@, id, Len(moved), day),
             !.log = IF dry_run THEN @ ELSE success.log,
             !.ops = Append(@, Op("stage_1", id, FALSE, found, moved,
                                  FindEmailsOlderThan(msgs2, folder,
                                                      policy.retention_days, day))),
             !.results = Append(@, Result("stage_1", id, TRUE, Len(found),
                                          Len(old_uids), dry_run))]

\* execute_retention_stage_2 as execute_policies_for_account calls it: the
\* audit calls are made with policy=None, and the exception of the one in
\* the handler leaves the call
ExecuteRetentionStage2(acc, trash_retention_days, dry_run, fails, day) ==
  LET found == FindEmailsOlderThan(acc.msgs, "trash", trash_retention_days, day)
      deleted == ToMove(found, dry_run)
      msgs2 == IF dry_run THEN acc.msgs
               ELSE PermanentDeleteFromTrash(acc.msgs, trash_retention_days, day)
      success == LogRetentionOperation(acc.log, "stage_2", NoPolicy,
                                       Len(found), TRUE, dry_run)
      failure == LogRetentionOperation(acc.log, "stage_2", NoPolicy, 0, FALSE, dry_run)
      op == Op("stage_2", "trash-cleanup", fails, found, deleted, <<>>)
      failed_op == Op("stage_2", "trash-cleanup", TRUE, <<>>, <<>>, <<>>)
      result == Result("stage_2", "trash-cleanup", TRUE, 0, Len(found), dry_run)
      failed_result == Result("stage_2", "trash-cleanup", FALSE, 0, 0, dry_run)
  IN IF fails
       THEN [acc EXCEPT
               !.log = failure.log,
               !.ops = Append(@, failed_op),
               !.results = IF dry_run /\ ~failure.raised
                             THEN Append(@, failed_result) ELSE @]
     ELSE IF dry_run
       THEN [acc EXCEPT !.ops = Append(@, op), !.results = Append(@, result)]
     ELSE [acc EXCEPT
             !.msgs = msgs2,
             !.log = IF success.raised THEN failure.log ELSE success.log,
             !.ops = Append(@, op),
             !.results = IF success.raised /\ failure.raised THEN @
                         ELSE IF success.raised THEN @
                         ELSE Append(@, result)]

\* the ids of the active folder policies, in store order
ActiveFolderPolicies(st) ==
  LET all == SelectSeq(GetAllPolicies(st), LAMBDA p : p.active /\ p.folder_pattern # "")
  IN [i \in DOMAIN all |-> all[i].id]

\* the stage-1 loop of execute_policies_for_account over the policies k..
RECURSIVE StageOneLoop(_, _, _, _, _, _)
StageOneLoop(acc, ids, k, dry_run, F, day) ==
  IF k > Len(ids) THEN acc
  ELSE StageOneLoop(ExecuteRetentionStage1(acc, ids[k], dry_run, k \in F, day),
                    ids, k + 1, dry_run, F, day)

\* execute_policies_for_account: F are the stage-1 operations that raise,
\* f2 says that the trash cleanup raises
ExecutePoliciesForAccountOn(msgs, st, stage, dry_run, F, f2, day) ==
  LET acc0 == [msgs |-> msgs, st |-> st, log |-> <<>>, ops |-> <<>>,
               results |-> <<>>]
      acc1 == IF stage \in {"both", "stage_1"}
                THEN StageOneLoop(acc0, ActiveFolderPolicies(st), 1, dry_run, F, day)
                ELSE acc0
  IN IF stage \in {"both", "stage_2"}
       THEN ExecuteRetentionStage2(acc1,
              st.global_settings.default_trash_retention_days, dry_run, f2, day)
       ELSE acc1

\* a run of the scheduler or of the execute request; audit holds the
\* entries the run appended to the audit log
ExecutePoliciesForAccount(stage, dry_run, F, f2) ==
  LET acc == ExecutePoliciesForAccountOn(rmsgs, settings, stage, dry_run, F, f2, today)
  IN /\ rmsgs' = acc.msgs
     /\ settings' = acc.st
     /\ audit' = acc.log
     /\ rrun' = [kind |-> "run", stage |-> stage, dry_run |-> dry_run,
                 ops |-> acc.ops, results |-> acc.results]
     /\ UNCHANGED <<today, retFrame>>

\* get_retention_preview of all active policies: the two stages, dry_run=True
GetRetentionPreview(F, f2) ==
  LET acc == ExecutePoliciesForAccountOn(rmsgs, settings, "both", TRUE, F, f2, today)
  IN /\ rmsgs' = acc.msgs
     /\ settings' = acc.st
     /\ audit' = acc.log
     /\ rrun' = [kind |-> "preview", stage |-> "both", dry_run |-> TRUE,
                 ops |-> acc.ops, results |-> acc.results]
     /\ UNCHANGED <<today, retFrame>>

\* a day passes
NextDay ==
  /\ today < MaxDay
  /\ today' = today + 1
  /\ UNCHANGED <<settings, rmsgs, audit, rrun, retFrame>>

\* the folder policies of the runs
FolderPolicy(folder_pattern, t, active) ==
  [NewPolicy(PolicyId("folder", folder_pattern, t), folder_pattern, "", 1, 7)
     EXCEPT !.active = active]

InitRet ==
  /\ SvcInit
  /\ ExtIdle
  /\ StatInit
  /\ last_transition_check = 0
  /\ MailIdle
  /\ RuleIdle
  /\ ListIdle
  /\ FileIdle
  /\ \E cap \in 1..MaxCap, d \in 1..MaxTrashDays :
       /\ settings \in
            {[saved |-> TRUE, folder_policies |-> f, rule_policies |-> r,
              global_settings |-> [max_emails_per_operation |-> cap,
                                   default_trash_retention_days |-> d]] :
               f \in {<<FolderPolicy("junk", 0, TRUE)>>,
                      <<FolderPolicy("junk", 0, TRUE), FolderPolicy("inbox", 0, TRUE)>>,
                      <<FolderPolicy("junk", 0, FALSE), FolderPolicy("junk", 1, TRUE)>>},
               r \in {<<NewPolicy(PolicyId("rule", "r1", 0), "", "r1", 1, 7)>>}}
  /\ rmsgs \in {m \in [1..NumMsgs -> [folder : {"junk", "inbox"}, date : 0..1,
                                      moved : {NoTime}]] :
                  m[1].folder = "junk" /\ m[1].date = 0}
  /\ today = 0
  /\ audit = <<>>
  /\ rrun = NoRetRun

NextRet ==
  \/ \E stage \in {"both", "stage_1", "stage_2"}, dry_run \in BOOLEAN,
        F \in SUBSET DOMAIN ActiveFolderPolicies(settings), f2 \in BOOLEAN :
       ExecutePoliciesForAccount(stage, dry_run, F, f2)
  \/ \E F \in SUBSET DOMAIN ActiveFolderPolicies(settings), f2 \in BOOLEAN :
       GetRetentionPreview(F, f2)
  \/ NextDay

RetSpec == InitRet /\ [][NextRet]_vars

OverCap(op) ==
  /\ op.stage = "stage_1"
  /\ ~op.failed
  /\ Len(op.found) > settings.global_settings.max_emails_per_operation

C27_DryRunNoEffect ==
  [][(today' = today /\ rrun'.kind \in {"run", "preview"} /\ rrun'.dry_run) =>
       /\ rmsgs' = rmsgs
       /\ settings' = settings
       /\ \A k \in DOMAIN rrun'.ops : rrun'.ops[k].moved = <<>>]_vars

\* a preview that found messages to move and messages to delete
C27_Witness ==
  /\ rrun.kind = "preview"
  /\ \E k \in DOMAIN rrun.ops :
       rrun.ops[k].stage = "stage_1" /\ rrun.ops[k].found # <<>>
  /\ \E k \in DOMAIN rrun.ops :
       rrun.ops[k].stage = "stage_2" /\ rrun.ops[k].found # <<>>

\* C28: a real run leaves one audit entry for each stage-1 and each stage-2
\* operation it made, with success or failure as the operation ended.
C28_AlwaysAudited ==
  (rrun.kind = "run" /\ ~rrun.dry_run) =>
    /\ Len(audit) = Len(rrun.ops)
    /\ \A k \in DOMAIN rrun.ops :
         /\ audit[k].stage = rrun.ops[k].stage
         /\ audit[k].success = ~rrun.ops[k].failed

\* C29: a run with no stage given makes stage-1 for the active folder
\* policies in store order, then stage-2 once, and returns one result for
\* each of these operations, in that order, a failed one with success false.
C29_ResultPerOperation ==
  (rrun.kind = "run" /\ rrun.stage = "both") =>
    /\ [k \in DOMAIN rrun.ops |-> rrun.ops[k].policy_id]
         = ActiveFolderPolicies(settings) \o <<"trash-cleanup">>
    /\ Len(rrun.results) = Len(rrun.ops)
    /\ \A k \in DOMAIN rrun.ops :
         /\ rrun.results[k].stage = rrun.ops[k].stage
         /\ rrun.results[k].policy_id = rrun.ops[k].policy_id
         /\ rrun.results[k].success = ~rrun.ops[k].failed

\* ---------------------------------------------------------------------
\* get_aggregate_stats while the processors are started, stopped and
\* switched between the modes
\* ---------------------------------------------------------------------

countFrame ==
  <<svcVars, statVars, last_transition_check, mailVars, ruleVars, listVars,
    fileVars, retVars, schedVars, alogVars, mem, done>>

\* start(), stop(), switch_mode() or an error of processor q: self.state and
\* self.mode are set inside `with self._lock`
ProcessorChange(q, state, mode) ==
  /\ plock[q] = NoThread
  /\ state \in RunningStates => state = RunningState(mode)
  /\ pstate[q] # [state |-> state, mode |-> mode]
  /\ pstate' = [pstate EXCEPT ![q] = [state |-> state, mode |-> mode]]
  /\ UNCHANGED countFrame

InitCount == InitStats

NextCount ==
  \/ Initialize
  \/ \E q \in StatProcs, state \in ServiceState, mode \in ProcessingMode :
       ProcessorChange(q, state, mode)
  \/ AggBegin
  \/ AggSnap
  \/ AggFinish

CountSpec == InitCount /\ [][NextCount]_vars

\* C40: a get_aggregate_stats call made after initialization returns as
\* running_accounts the number of its snapshots whose state is
\* RUNNING_STARTUP or RUNNING_MAINTENANCE, and as startup_mode_accounts the
\* number of its snapshots whose mode is startup.
C40_CountsOfSnapshot ==
  [][(agg.pc = "loop" /\ agg'.pc = "idle") =>
       /\ agg'.running_accounts =
            Cardinality({q \in DOMAIN agg.snap : agg.snap[q].state \in RunningStates})
       /\ agg'.startup_mode_accounts =
            Cardinality({q \in DOMAIN agg.snap : agg.snap[q].mode = STARTUP})]_vars

\* ---------------------------------------------------------------------
\* The retention scheduler: one RetentionScheduler object, the threads its
\* start_scheduler creates, and a clock that counts hours
\* ---------------------------------------------------------------------

\* the defaults of RetentionScheduler.__init__
check_interval_hours == 24
execution_hour == 2
\* datetime.now().hour runs through 0-23
HoursPerDay == 24
\* the calendar days that are followed
SchedDays == 2

schedFrame ==
  <<svcVars, statVars, last_transition_check, mailVars, ruleVars, listVars,
    fileVars, retVars, alogVars, mem, done, pstate>>

\* everything but the scheduler in its state after construction
BaseIdle ==
  /\ SvcInit
  /\ StatInit
  /\ last_transition_check = 0
  /\ MailIdle
  /\ RuleIdle
  /\ ListIdle
  /\ FileIdle
  /\ RetIdle

HourOf(c) == c % HoursPerDay
DateOf(c) == c \div HoursPerDay

\* threads whose _scheduler_loop has been started and has not returned
LiveThreads == {t \in SchedThreads : sthr[t].pc \notin {"unborn", "dead"}}

\* start_scheduler: refused while self.running; else self.running = True and
\* a new thread runs _scheduler_loop
StartScheduler(t) ==
  /\ ~sched.running
  /\ sthr[t].pc \in {"unborn", "dead"}
  /\ sched' = [sched EXCEPT !.running = TRUE]
  /\ sthr' = [sthr EXCEPT ![t] = [pc |-> "loop", wake |-> 0]]
  /\ UNCHANGED <<clk, execs, schedFrame>>

\* stop_scheduler: refused unless self.running; self.running = False, then
\* join(timeout=10) of the thread, which returns whether or not the thread
\* has ended
StopScheduler ==
  /\ sched.running
  /\ sched' = [sched EXCEPT !.running = FALSE]
  /\ UNCHANGED <<sthr, clk, execs, schedFrame>>

\* now.hour == execution_hour and last_execution is not of today
ShouldRunRetention ==
  /\ HourOf(clk) = execution_hour
  /\ (sched.last_execution # NoTime => DateOf(sched.last_execution) # DateOf(clk))

\* `while self.running:` of _scheduler_loop and the check of its body: the
\* loop ends when running is false, starts an execution when
\* _should_run_retention, and goes to sleep for check_interval_hours else
SchedulerLoop(t) ==
  /\ sthr[t].pc = "loop"
  /\ IF ~sched.running
       THEN /\ sthr' = [sthr EXCEPT ![t] = [pc |-> "dead", wake |-> 0]]
            /\ execs' = execs
       ELSE IF ShouldRunRetention
         THEN /\ sthr' = [sthr EXCEPT ![t].pc = "exec"]
              /\ execs' = execs \cup {[t |-> t, at |-> clk]}
         ELSE /\ sthr' = [sthr EXCEPT ![t] =
                            [pc |-> "sleep", wake |-> clk + check_interval_hours]]
              /\ execs' = execs
  /\ UNCHANGED <<sched, clk, schedFrame>>

\* the end of _execute_scheduled_retention: with no account configured it
\* returns early, else last_execution = now after the accounts; then the
\* loop sleeps
ExecuteScheduledRetention(t, accounts) ==
  /\ sthr[t].pc = "exec"
  /\ sched' = IF accounts THEN [sched EXCEPT !.last_execution = clk] ELSE sched
  /\ sthr' = [sthr EXCEPT ![t] =
                [pc |-> "sleep", wake |-> clk + check_interval_hours]]
  /\ UNCHANGED <<clk, execs, schedFrame>>

\* _sleep_with_interruption: every 60 seconds the sleeper looks at the time
\* and at self.running, and returns to the loop when the time is over or
\* running is false at that moment
SleepWithInterruption(t) ==
  /\ sthr[t].pc = "sleep"
  /\ (clk >= sthr[t].wake \/ ~sched.running)
  /\ sthr' = [sthr EXCEPT ![t].pc = "loop"]
  /\ UNCHANGED <<sched, clk, execs, schedFrame>>

\* an hour passes; the steps of a thread that is not asleep, and the minute
\* poll of a sleeper whose time is over or whose flag is down, take less
HourPasses ==
  /\ clk < SchedDays * HoursPerDay - 1
  /\ \A t \in SchedThreads :
       \/ sthr[t].pc \in {"unborn", "dead"}
       \/ sthr[t].pc = "sleep" /\ clk < sthr[t].wake /\ sched.running
  /\ clk' = clk + 1
  /\ UNCHANGED <<sched, sthr, execs, schedFrame>>

InitSched ==
  /\ BaseIdle
  /\ AlogIdle
  /\ MemIdle
  /\ PstateIdle
  /\ sched = [running |-> FALSE, last_execution |-> NoTime]
  /\ sthr = [t \in SchedThreads |-> [pc |-> "unborn", wake |-> 0]]
  /\ clk \in 0..(HoursPerDay - 1)
  /\ execs = {}

NextSched ==
  \/ \E t \in SchedThreads : StartScheduler(t)
  \/ StopScheduler
  \/ \E t \in SchedThreads : SchedulerLoop(t)
  \/ \E t \in SchedThreads, accounts \in BOOLEAN :
       ExecuteScheduledRetention(t, accounts)
  \/ \E t \in SchedThreads : SleepWithInterruption(t)
  \/ HourPasses

SchedSpec == InitSched /\ [][NextSched]_vars

\* the scheduler is started and never stopped, and accounts are configured;
\* every thread that can take a step takes it, and time passes
NextFairSched ==
  \/ \E t \in SchedThreads : StartScheduler(t)
  \/ \E t \in SchedThreads : SchedulerLoop(t)
  \/ \E t \in SchedThreads : ExecuteScheduledRetention(t, TRUE)
  \/ \E t \in SchedThreads : SleepWithInterruption(t)
  \/ HourPasses

FairSchedSpec ==
  /\ InitSched
  /\ [][NextFairSched]_vars
  /\ WF_vars(HourPasses)
  /\ \A t \in SchedThreads :
       /\ WF_vars(SchedulerLoop(t))
       /\ WF_vars(ExecuteScheduledRetention(t, TRUE))
       /\ WF_vars(SleepWithInterruption(t))

\* C31: every scheduled execution starts in the hour execution_hour, and no
\* two scheduled executions start on the same calendar day, whatever the
\* interleaving of start_scheduler, stop_scheduler and the loop.
C31_OncePerDay ==
  /\ \A e \in execs : HourOf(e.at) = execution_hour
  /\ \A e1, e2 \in execs : DateOf(e1.at) = DateOf(e2.at) => e1 = e2

\* C32: if the scheduler is running when a calendar day begins and stays
\* running, a scheduled execution takes place in the hour execution_hour of
\* that day.
C32_DailyExecution ==
  \A d \in 0..(SchedDays - 1) :
    (sched.running /\ clk = d * HoursPerDay)
      ~> (\E e \in execs : DateOf(e.at) = d /\ HourOf(e.at) = execution_hour)

\* C33: at most one scheduler-loop thread is alive at any time.
C33_SingleWorker == Cardinality(LiveThreads) <= 1

\* ---------------------------------------------------------------------
\* The audit log: the lines the "retention_audit" logger writes to the file
\* and what get_audit_entries reads back
\* ---------------------------------------------------------------------

\* the audit entries written and the limits of the queries that are followed
MaxLogged == 3
MaxLimit == 2

auditFrame ==
  <<svcVars, statVars, last_transition_check, mailVars, ruleVars, listVars,
    fileVars, retVars, schedVars, mem, done, pstate>>

AuditPolicyIds == {"p1", "p2"}
\* log_retention_operation writes no 'operation_type' key; log_policy_change
\* and log_trash_operation write these
AuditKinds == {"None", "policy_change", "trash_operation"}

\* the dict one of the three log methods dumps; the timestamps of successive
\* entries increase
AuditEntry(kind, policy_id, t) ==
  [timestamp |-> t, policy_id |-> policy_id, operation_type |-> kind]

\* the line the handler writes for logger.info(json.dumps(entry)):
\* '%(asctime)s [RETENTION_AUDIT] %(message)s'
FormatLine(asctime, message) == <<asctime, "[RETENTION_AUDIT]", message>>

\* json.loads(line.strip()): a line that is one JSON document and nothing
\* else parses; text before or after the document is a JSONDecodeError
JsonLoads(line) ==
  IF Len(line) = 1
    THEN [ok |-> TRUE, entry |-> line[1]]
    ELSE [ok |-> FALSE]

\* self.logger.info(json.dumps(audit_entry)) of the three log methods
LogAudit(kind, policy_id) ==
  /\ Len(alog) < MaxLogged
  /\ alog' = Append(alog, FormatLine(Len(alog),
                                     AuditEntry(kind, policy_id, Len(alog))))
  /\ UNCHANGED <<aq, auditFrame>>

\* the filters of get_audit_entries; a filter that is None or empty is off
Passes(entry, q) ==
  /\ q.start_date # NoTime => ~(entry.timestamp < q.start_date)
  /\ q.end_date # NoTime => ~(entry.timestamp > q.end_date)
  /\ q.policy_id # "None" => entry.policy_id = q.policy_id
  /\ q.operation_type # "None" => entry.operation_type = q.operation_type

\* the loop over the lines of the file: a line that does not parse is
\* skipped, an entry that passes is appended, and the loop breaks when
\* len(entries) >= limit
RECURSIVE ScanLines(_, _, _, _)
ScanLines(lines, i, entries, q) ==
  IF i > Len(lines)
    THEN entries
    ELSE LET r == JsonLoads(lines[i]) IN
         IF ~r.ok \/ ~Passes(r.entry, q)
           THEN ScanLines(lines, i + 1, entries, q)
           ELSE LET es == Append(entries, r.entry) IN
                IF Len(es) >= q.limit THEN es ELSE ScanLines(lines, i + 1, es, q)

Reversed(seq) == [i \in 1..Len(seq) |-> seq[Len(seq) + 1 - i]]

\* get_audit_entries(start_date, end_date, policy_id, operation_type, limit)
GetAuditEntries(start_date, end_date, policy_id, operation_type, limit) ==
  LET q == [kind |-> "query", start_date |-> start_date, end_date |-> end_date,
            policy_id |-> policy_id, operation_type |-> operation_type,
            limit |-> limit]
  IN /\ aq' = q @@ [result |-> Reversed(ScanLines(alog, 1, <<>>, q))]
     /\ UNCHANGED <<alog, auditFrame>>

InitAudit ==
  /\ BaseIdle
  /\ SchedIdle
  /\ MemIdle
  /\ PstateIdle
  /\ alog = <<>>
  /\ aq = NoQuery

NextAudit ==
  \/ \E kind \in AuditKinds, policy_id \in AuditPolicyIds :
       LogAudit(kind, policy_id)
  \/ \E start_date \in {NoTime, 1}, end_date \in {NoTime, 1},
        policy_id \in {"None", "p1"},
        operation_type \in {"None", "policy_change"}, limit \in 1..MaxLimit :
       GetAuditEntries(start_date, end_date, policy_id, operation_type, limit)

AuditSpec == InitAudit /\ [][NextAudit]_vars

\* the entries logged so far, oldest first, and those of them a query's
\* filter matches
Logged == [i \in 1..Len(alog) |-> alog[i][Len(alog[i])]]
MatchingOf(q) == SelectSeq(Logged, LAMBDA e : Passes(e, q))

\* C34: the file only grows, and a query whose limit is not below the
\* number of logged entries that match its filter returns every two of
\* them, the one logged later ahead of the one logged earlier in the
\* newest-first result.
C34_AppendOnlyChronological ==
  [][/\ SubSeq(alog', 1, Len(alog)) = alog
     /\ (aq' # aq /\ aq'.limit >= Len(MatchingOf(aq'))) =>
          \A i, j \in 1..Len(MatchingOf(aq')) :
            i < j =>
              \E a, b \in 1..Len(aq'.result) :
                /\ aq'.result[a] = MatchingOf(aq')[i]
                /\ aq'.result[b] = MatchingOf(aq')[j]
                /\ b < a]_vars

\* C35: a query with limit L returns, newest first, the L most recent of
\* the logged entries that match its filter, or all of them if they are at
\* most L.
C35_LimitNewest ==
  [][aq' # aq =>
       LET m == MatchingOf(aq')
           n == IF Len(m) < aq'.limit THEN Len(m) ELSE aq'.limit
       IN aq'.result = Reversed(SubSeq(m, Len(m) - n + 1, Len(m)))]_vars

\* ---------------------------------------------------------------------
\* purge_old of the inbox and training-folder processing, next to the
\* retention runs, on the same mailbox
\* ---------------------------------------------------------------------

\* config.retention_settings of a folder type, in days
MaxPurgeAge == 2

\* _get_folder_type_from_name: the type of a destination folder, none for a
\* name that holds none of the patterns
FolderTypeFromName(folder_name) ==
  IF folder_name = "junk" THEN "junk" ELSE "None"

\* purge = the uids of the folder with today - item.date > timedelta(days=age)
PurgeList(msgs, folder, age, day) ==
  SelectSeq(UidsIn(msgs, folder), LAMBDA u : day - msgs[u].date > age)

\* login.delete(purge): the messages are flagged deleted and expunged where
\* they are
MailboxDelete(msgs, uids) ==
  [u \in DOMAIN msgs |->
     IF u \in Range(uids) THEN [msgs[u] EXCEPT !.folder = "gone"] ELSE msgs[u]]

\* the end of process_folder, and of process_inbox for the approved_ads
\* folder: purge_old(mb, dest_folder, retention_days) when the folder has a
\* type and its retention setting is above 0
PurgeOld(dest_folder, retention_days) ==
  /\ FolderTypeFromName(dest_folder) # "None"
  /\ retention_days > 0
  /\ rmsgs' = MailboxDelete(rmsgs, PurgeList(rmsgs, dest_folder, retention_days, today))
  /\ rrun' = [kind |-> "purge", folder |-> dest_folder, age |-> retention_days]
  /\ UNCHANGED <<settings, today, audit, retFrame>>

InitPurge == InitRet

NextPurge ==
  \/ \E dest_folder \in {"junk", "inbox"}, retention_days \in 0..MaxPurgeAge :
       PurgeOld(dest_folder, retention_days)
  \/ \E stage \in {"both", "stage_1", "stage_2"},
        F \in SUBSET DOMAIN ActiveFolderPolicies(settings) :
       ExecutePoliciesForAccount(stage, FALSE, F, FALSE)
  \/ NextDay

PurgeSpec == InitPurge /\ [][NextPurge]_vars

\* C36: a message that is permanently deleted was in the trash folder, or
\* was moved there by the operation that deletes it.
C36_DeletedFromTrashOnly ==
  [][\A u \in DOMAIN rmsgs :
       (rmsgs[u].folder # "gone" /\ rmsgs'[u].folder = "gone") =>
         (rmsgs[u].folder = "trash" \/ rmsgs'[u].moved # NoTime)]_vars

\* ---------------------------------------------------------------------
\* move_to_trash as stage-1 calls it, for a Gmail account and for another,
\* with an IMAP MOVE that succeeds or is rejected
\* ---------------------------------------------------------------------

\* the highest emails_moved_to_trash that is followed
MaxMovedCount == 3

\* the dict gmail_aware_move returns: the exception of mailbox.move is
\* caught and noted under 'errors'
GmailAwareMoveResult(message_uids, move_ok) ==
  IF message_uids = <<>> THEN [moved |-> 0, label_removed |-> 0, errors |-> 0]
  ELSE IF move_ok
    THEN [moved |-> Len(message_uids), label_removed |-> 0, errors |-> 0]
    ELSE [moved |-> 0, label_removed |-> 0, errors |-> 1]

\* the truth value of a dict: false only when it has no key
Truthy(d) == DOMAIN d # {}

\* move_to_trash(mailbox, message_uids, source_folder, account, policy_id):
\* the count it returns or the TrashOperationError it raises, the mailbox
\* after it, and the entries it gives to log_trash_operation
TrashMove(msgs, message_uids, gmail, move_ok, day) ==
  LET entry(success) == [operation |-> "move_to_trash", success |-> success,
                         message_count |-> Len(message_uids)]
  IN IF message_uids = <<>>
       THEN [raised |-> FALSE, moved_count |-> 0, msgs |-> msgs, log |-> <<>>]
     ELSE IF gmail
       THEN [raised |-> FALSE,
             moved_count |->
               IF Truthy(GmailAwareMoveResult(message_uids, move_ok))
                 THEN Len(message_uids) ELSE 0,
             msgs |-> IF move_ok THEN MoveToTrash(msgs, message_uids, day) ELSE msgs,
             log |-> <<entry(TRUE)>>]
     ELSE IF move_ok
       THEN [raised |-> FALSE, moved_count |-> Len(message_uids),
             msgs |-> MoveToTrash(msgs, message_uids, day),
             log |-> <<entry(TRUE)>>]
     ELSE [raised |-> TRUE, moved_count |-> 0, msgs |-> msgs,
           log |-> <<entry(FALSE)>>]

\* execute_retention_stage_1 of the k-th active folder policy, dry_run
\* false, from the candidates to the save of the policy's statistics; audit
\* holds the trash entries of the call
TrashStageOne(k, gmail, move_ok) ==
  LET id == ActiveFolderPolicies(settings)[k]
      policy == PolicyOf(settings, id)
      found == FindEmailsOlderThan(rmsgs, policy.folder_pattern,
                                   policy.retention_days, today)
      old_uids == Capped(found, settings.global_settings.max_emails_per_operation)
      out == TrashMove(rmsgs, old_uids, gmail, move_ok, today)
  IN /\ policy.emails_moved_to_trash < MaxMovedCount
     /\ rmsgs' = out.msgs
     /\ settings' = IF out.raised \/ found = <<>> THEN settings
                    ELSE Applied(settings, id, out.moved_count, today)
     /\ audit' = out.log
     /\ rrun' = [kind |-> "trash", policy_id |-> id, gmail |-> gmail,
                 move_ok |-> move_ok, uids |-> old_uids, raised |-> out.raised,
                 moved_count |-> out.moved_count]
     /\ UNCHANGED <<today, retFrame>>

InitTrash == InitRet

NextTrash ==
  \/ \E k \in DOMAIN ActiveFolderPolicies(settings), gmail \in BOOLEAN,
        move_ok \in BOOLEAN :
       TrashStageOne(k, gmail, move_ok)
  \/ NextDay

TrashSpec == InitTrash /\ [][NextTrash]_vars

\* the messages a step put into the trash folder
MovedByStep ==
  {u \in DOMAIN rmsgs : rmsgs[u].folder # "trash" /\ rmsgs'[u].folder = "trash"}

\* C37: after a stage-1 move, a rejected IMAP move has raised
\* TrashOperationError and left a failure entry, the count of a move that
\* did not raise is the number of messages that went to the trash, and the
\* policy's emails_moved_to_trash has grown by that number.
C37_NoFalseSuccess ==
  [][(\E k \in DOMAIN ActiveFolderPolicies(settings), gmail \in BOOLEAN,
         move_ok \in BOOLEAN : TrashStageOne(k, gmail, move_ok)) =>
       /\ (~rrun'.move_ok /\ rrun'.uids # <<>>) =>
            /\ rrun'.raised
            /\ audit' # <<>>
            /\ ~audit'[Len(audit')].success
       /\ ~rrun'.raised => rrun'.moved_count = Cardinality(MovedByStep)
       /\ PolicyOf(settings', rrun'.policy_id).emails_moved_to_trash
            = PolicyOf(settings, rrun'.policy_id).emails_moved_to_trash
              + Cardinality(MovedByStep)]_vars

\* ---------------------------------------------------------------------
\* Several RetentionPolicyManager objects on one retention_policies.json:
\* each loads the file when it is built and writes all of its settings
\* with every save
\* ---------------------------------------------------------------------

mgrFrame ==
  <<svcVars, statVars, last_transition_check, mailVars, ruleVars, listVars,
    fileVars, rmsgs, today, audit, schedVars, alogVars, pstate>>

MgrFolders == {"junk", "inbox"}
MgrPolicyIds == {PolicyId("folder", f, 0) : f \in MgrFolders}

\* RetentionPolicyManager(config_dir): get_retention_manager builds one for
\* every request, the scheduler and the mail processing hold their own;
\* load_policies reads the file into self.settings
MgrBuild(m) ==
  /\ mem' = [mem EXCEPT ![m] = [built |-> TRUE, st |-> LoadPolicies(settings)]]
  /\ UNCHANGED <<settings, done, rrun, mgrFrame>>

\* save_policies: the whole of self.settings replaces the file
SavePolicies(st) == [st EXCEPT !.saved = TRUE]

\* create_folder_policy on manager m: add_policy, save_policies
MgrCreate(m, folder_pattern) ==
  LET p == NewPolicy(PolicyId("folder", folder_pattern, 0), folder_pattern, "", 1, 7)
  IN /\ mem[m].built
     /\ Len(GetAllPolicies(mem[m].st)) < MaxPolicies
     /\ p.id \notin PolicyIds(mem[m].st)
     /\ mem' = [mem EXCEPT ![m].st = AddPolicy(@, p)]
     /\ settings' = SavePolicies(AddPolicy(mem[m].st, p))
     /\ done' = done \cup {p.id}
     /\ UNCHANGED <<rrun, mgrFrame>>

\* setattr(policy, 'retention_days', value) on the policy object of the
\* settings
SetRetentionDays(st, id, retention_days) ==
  LET set(q) == [i \in DOMAIN q |->
                   IF q[i].id = id THEN [q[i] EXCEPT !.retention_days = retention_days]
                   ELSE q[i]]
  IN [st EXCEPT !.folder_policies = set(@), !.rule_policies = set(@)]

\* update_policy(policy_id, retention_days=...) on manager m:
\* PolicyNotFoundError for an unknown id; else the updates are set on the
\* policy, then the period is tested, then the policies are saved
MgrUpdate(m, id, retention_days) ==
  /\ mem[m].built
  /\ IF id \notin PolicyIds(mem[m].st)
       THEN /\ rrun' = [kind |-> "update",
                        raised |-> "PolicyNotFound"]
            /\ UNCHANGED <<mem, settings>>
       ELSE LET st == SetRetentionDays(mem[m].st, id, retention_days) IN
            /\ mem' = [mem EXCEPT ![m].st = st]
            /\ IF retention_days < min_retention_days
                 THEN /\ rrun' = [kind |-> "update",
                                  raised |-> "InvalidRetentionPeriod"]
                      /\ UNCHANGED settings
                 ELSE /\ rrun' = [kind |-> "update",
                                  raised |-> "none"]
                      /\ settings' = SavePolicies(st)
  /\ UNCHANGED <<done, mgrFrame>>

\* delete_policy on manager m: remove_policy, save_policies
MgrDelete(m, id) ==
  /\ mem[m].built
  /\ id \in PolicyIds(mem[m].st)
  /\ mem' = [mem EXCEPT ![m].st = RemovePolicy(@, id)]
  /\ settings' = SavePolicies(RemovePolicy(mem[m].st, id))
  /\ done' = done \ {id}
  /\ UNCHANGED <<rrun, mgrFrame>>

\* the end of a stage-1 execution on manager m that moved one message for
\* its k-th folder policy: the statistics of the policy, then save_policies
MgrStageOne(m, k) ==
  LET id == ActiveFolderPolicies(mem[m].st)[k] IN
  /\ PolicyOf(mem[m].st, id).emails_moved_to_trash < 1
  /\ mem' = [mem EXCEPT ![m].st = Applied(@, id, 1, today)]
  /\ settings' = SavePolicies(Applied(mem[m].st, id, 1, today))
  /\ UNCHANGED <<done, rrun, mgrFrame>>

\* the file holds one folder policy, saved by an earlier request
InitMgr ==
  /\ SvcInit
  /\ StatInit
  /\ last_transition_check = 0
  /\ MailIdle
  /\ RuleIdle
  /\ ListIdle
  /\ FileIdle
  /\ settings = [saved |-> TRUE,
                 folder_policies |->
                   <<NewPolicy(PolicyId("folder", "junk", 0), "junk", "", 1, 7)>>,
                 rule_policies |-> <<>>]
  /\ rmsgs = <<>>
  /\ today = 0
  /\ audit = <<>>
  /\ rrun = NoRetRun
  /\ SchedIdle
  /\ AlogIdle
  /\ PstateIdle
  /\ mem = [m \in Managers |-> NotBuilt]
  /\ done = {}

NextMgr ==
  \/ \E m \in Managers : MgrBuild(m)
  \/ \E m \in Managers, folder_pattern \in MgrFolders :
       MgrCreate(m, folder_pattern)
  \/ \E m \in Managers, id \in MgrPolicyIds, retention_days \in 0..MaxRetention :
       MgrUpdate(m, id, retention_days)
  \/ \E m \in Managers, id \in MgrPolicyIds : MgrDelete(m, id)
  \/ \E m \in Managers :
       /\ mem[m].built
       /\ \E k \in DOMAIN ActiveFolderPolicies(mem[m].st) : MgrStageOne(m, k)

MgrSpec == InitMgr /\ [][NextMgr]_vars

\* C38: every policy whose creation has completed, and that no completed
\* deletion has removed, is in retention_policies.json.
C38_NoLostUpdate == \A id \in done : id \in PolicyIds(settings)

\* C39: an update_policy call that raises leaves the settings of its
\* manager and the file as they were, and the file never holds a policy
\* whose retention_days is below min_retention_days.
C39_FailedUpdateNoEffect ==
  [][/\ \A m \in Managers, id \in MgrPolicyIds, retention_days \in 0..MaxRetention :
          (MgrUpdate(m, id, retention_days) /\ rrun'.raised # "none") =>
            (mem' = mem /\ settings' = settings)
     /\ \A i \in DOMAIN GetAllPolicies(settings') :
          GetAllPolicies(settings')[i].retention_days >= min_retention_days]_vars
====
